---- MODULE Spec2Model ----
(***************************************************************************)
(* Verification model of the DataMatrix scanner (SephyrothC/VideoCard).    *)
(*                                                                         *)
(*   SpecAcq : main.py, EnhancedCameraManager: the acquisition threads and *)
(*             the frame buffer, with the capture cycles of the standard   *)
(*             profile that pause and restart them.                        *)
(*   SpecCap : main.py, the capture orchestrator in its three profiles.    *)
(*   SpecInter: main.py, the orchestrator with a second request joining,   *)
(*             two requests of the standard profile interleaved.           *)
(*   SpecView: main.py, get_video_stream, the zoom commands and the crop.  *)
(*   SpecDec : main.py, decode_datamatrix and its two decoding stages.     *)
(*   SpecWs  : main.py, websocket_endpoint and its command handlers.       *)
(*   SpecStop: main.py, stop() against the running acquisition thread.     *)
(*   SpecFocus: main.py, the two autofocus routines.                       *)
(*   SpecLabel: main.py, extract_white_label_enhanced on contour lists.    *)
(*   SpecCrop: main.py, the crop of the selected bounding rectangle.       *)
(*   SpecLens: main.py, the lens position from the autofocus routines to   *)
(*             the still configuration a capture applies.                  *)
(*   SpecName: main.py, the destination paths of capture requests.         *)
(*   SpecSto : storage_manager.py, StorageManager used from one thread.    *)
(*   SpecList: storage_manager.py, list_files over the two roots.          *)
(***************************************************************************)
EXTENDS Integers, Sequences, FiniteSets, Bags, TLC

(***************************************************************************)
(* Bounds of the model.                                                    *)
(***************************************************************************)
\* the wall clock of the storage model stops advancing here (seconds)
MaxTime == 180
\* frames the acquisition threads capture in one behaviour
MaxFrames == 4
\* acquisition threads alive at the same time
MaxThreads == 2
\* device / writer failures injected in one behaviour
MaxFaults == 2
\* quality scores are drawn from 0..MaxScore
MaxScore == 3
\* the longest a capture_metadata call takes beyond an instant (milliseconds)
MaxStall == 3000

(***************************************************************************)
(* Program constants.                                                      *)
(***************************************************************************)
\* storage_manager.py:44  self._check_interval = 60
check_interval == 60
\* storage_manager.py:46  self._max_failures = 3
max_failures == 3

\* main.py:244  if len(self._frame_buffer) > 3
BufferCapacity == 3

VARIABLES
    \* ---- EnhancedCameraManager (main.py) ----
    app_quality_mode,  \* app_settings["quality_mode"]
    quality_config,    \* self._quality_config, as the key of QUALITY_CONFIGS it holds
    picam,             \* self.picam2: [present, started, config]
    is_streaming,      \* self.is_streaming
    stop_capture,      \* self._stop_capture
    capture_thread,    \* self._capture_thread: 0 is None, 1 a thread object
    thread,            \* the bag of live acquisition threads: [pc, frame, current]
    frame_buffer,      \* self._frame_buffer
    buffer_lock,       \* self._buffer_lock: 0 free, 1 held
    clock,             \* frames captured so far by the acquisition threads
    pushed,            \* history: the frames appended to the buffer, in order
    req,               \* the capture requests in flight: one record per client
    clients,           \* the clients that issue capture requests
    faults,            \* failures injected so far
    \* ---- websocket_endpoint and its handlers (main.py) ----
    current_websocket, \* the module global (0 is None)
    ws,                \* the endpoint coroutine: [state, pc, pending]
    peer,              \* the client's end of the socket: "up" or "down"
    sent,              \* history: the messages delivered for the last command received
    capture,           \* history: how the last capture command ended
    zoom,              \* camera_manager.zoom_factor / zoom_center
    current_focus,     \* camera_manager._current_focus (0 is None)
    \* ---- decode_datamatrix and the video stream (main.py) ----
    dec,               \* a decode_datamatrix call: position, attempts made, result
    rendered,          \* the frame get_video_stream yielded last
    zoom_cmd,          \* history: the last zoom command received
    shutdown,          \* a call of stop(): position, how the join and the teardown went
    af,                \* an autofocus routine: position, elapsed time, last metadata
    seg,               \* a call of extract_white_label_enhanced: inputs, selection, crop
    focus_run,         \* history: how the last focus_auto call of a focus command ended
    still,             \* the lens position in self.still_config, latched and applied last
    names,             \* history: the capture requests made, with their destination paths
    \* ---- StorageManager (storage_manager.py) ----
    network_enabled,   \* self.network_enabled, fixed by the environment at construction
    sm,                \* [network_available, last_check_time, consecutive_failures]
    now,               \* time.time(), in seconds
    last_call,         \* record of the last StorageManager call: inputs, pre-state, result
    probes             \* history: when the last probe ran, whether a reset followed it

camVars == <<app_quality_mode, quality_config, picam, is_streaming, stop_capture,
             capture_thread, thread, frame_buffer, buffer_lock, clock, pushed,
             req, clients, faults>>
stoVars == <<network_enabled, sm, now, last_call, probes>>
wsVars == <<current_websocket, ws, peer, sent, capture, zoom, current_focus>>
histVars == <<seg, focus_run, still, names>>
extVars == <<dec, rendered, zoom_cmd, shutdown, af, histVars>>
vars == <<camVars, stoVars, wsVars, extVars>>

(***************************************************************************)
(* EnhancedCameraManager: state after __init__                             *)
(***************************************************************************)
ReqIds == {1, 2}
Scores == 0..MaxScore
QualityModes == {"standard", "haute", "expert"}

\* QUALITY_CONFIGS[m]["multiple_shots"] (main.py:70-93)
multiple_shots(m) ==
    CASE m = "standard" -> 1
      [] m = "haute" -> 3
      [] m = "expert" -> 5

\* _capture_bracketed_photos line 569
exposures == <<8000, 10000, 12000, 15000>>

IdleReq == [pc |-> "idle", kind |-> "none", was_capturing |-> FALSE, paused |-> FALSE,
            shots |-> 0, taken |-> 0, scores |-> <<>>, used |-> <<>>,
            best_score |-> 0, best_image |-> 0,
            written |-> 0, write_result |-> "none",
            restore |-> FALSE, result |-> "none"]

\* EnhancedCameraManager.__init__ and the module globals (app_settings)
CamInit ==
    /\ app_quality_mode = "standard"
    /\ quality_config = "standard"
    /\ picam = [present |-> FALSE, started |-> FALSE, config |-> "none"]
    /\ is_streaming = FALSE
    /\ stop_capture = FALSE
    /\ capture_thread = 0
    /\ thread = EmptyBag
    /\ frame_buffer = <<>>
    /\ buffer_lock = 0
    /\ clock = 0
    /\ pushed = <<>>
    /\ req = [r \in ReqIds |-> IdleReq]
    /\ clients = {1}
    /\ faults = 0

(***************************************************************************)
(* The acquisition loop and the frame buffer                               *)
(***************************************************************************)
\* the live acquisition threads; a thread that leaves its loop leaves the bag
Threads == BagToSet(thread)

\* a thread where _start_background_capture starts it; current: it is the
\* thread self._capture_thread refers to
NewThread == [pc |-> "loop", frame |-> 0, current |-> TRUE]

\* the bag with thread th replaced by to
Moved(th, to) == (thread (-) SetToBag({th})) (+) SetToBag({to})

\* self._capture_thread and self._capture_thread.is_alive() (line 446)
is_alive == capture_thread # 0 /\ \E th \in Threads : th.current

\* _start_background_capture (lines 220-225): the flag is cleared and
\* self._capture_thread refers to a new thread; the one it referred to runs on
start_background_capture ==
    /\ BagCardinality(thread) < MaxThreads
    /\ stop_capture' = FALSE
    /\ thread' = IF \E th \in Threads : th.current
                 THEN LET th == CHOOSE th \in Threads : th.current
                      IN Moved(th, [th EXCEPT !.current = FALSE]) (+) SetToBag({NewThread})
                 ELSE thread (+) SetToBag({NewThread})
    /\ capture_thread' = 1

\* mutant: on overflow the newest frame is dropped instead of the oldest
evict_newest(buf) ==
    IF Len(buf) > BufferCapacity THEN SubSeq(buf, 1, Len(buf) - 1) ELSE buf

\* _background_capture_loop lines 244-245: if len > 3: pop(0)
evict(buf) ==
    IF Len(buf) > BufferCapacity THEN Tail(buf) ELSE buf

\* _get_latest_frame: the last buffered frame, 0 (None) when the buffer is empty
get_latest_frame(buf) ==
    IF buf # <<>> THEN buf[Len(buf)] ELSE 0

\* initialize(): configure preview, start, autofocus, start the acquisition thread
Initialize ==
    /\ ~picam.present
    /\ shutdown.pc = "idle"
    /\ picam' = [present |-> TRUE, started |-> TRUE, config |-> "preview"]
    /\ start_background_capture
    /\ is_streaming' = TRUE
    /\ UNCHANGED <<app_quality_mode, quality_config, frame_buffer, buffer_lock,
                   clock, pushed, req, clients, faults>>
    /\ UNCHANGED <<stoVars, wsVars, extVars>>

\* while not self._stop_capture (line 229)
AcqLoopTest(t) ==
    /\ t.pc = "loop"
    /\ thread' = IF stop_capture
                 THEN thread (-) SetToBag({t})
                 ELSE Moved(t, [t EXCEPT !.pc = "check"])
    /\ UNCHANGED <<app_quality_mode, quality_config, picam, is_streaming, stop_capture,
                   capture_thread, frame_buffer, buffer_lock, clock, pushed, req,
                   clients, faults>>
    /\ UNCHANGED <<stoVars, wsVars, extVars>>

\* if not self.picam2 or not self.picam2.started: sleep; continue (lines 231-233)
AcqReadyTest(t) ==
    /\ t.pc = "check"
    /\ thread' = Moved(t, [t EXCEPT !.pc =
                     IF ~picam.present \/ ~picam.started THEN "loop" ELSE "capture"])
    /\ UNCHANGED <<app_quality_mode, quality_config, picam, is_streaming, stop_capture,
                   capture_thread, frame_buffer, buffer_lock, clock, pushed, req,
                   clients, faults>>
    /\ UNCHANGED <<stoVars, wsVars, extVars>>

\* mutant: the exception ends the thread
on_capture_exception_exits(t) == thread (-) SetToBag({t})

\* except Exception: sleep(0.1) (lines 249-251), then the loop test again
on_capture_exception(t) == Moved(t, [t EXCEPT !.pc = "loop"])

\* array = self.picam2.capture_array() (line 235): a frame, or an exception that
\* the loop's except clause swallows (lines 249-251)
AcqCapture(t) ==
    /\ t.pc = "capture"
    /\ \/ /\ picam.started
          /\ clock < MaxFrames
          /\ clock' = clock + 1
          /\ thread' = Moved(t, [t EXCEPT !.pc = "push", !.frame = clock + 1])
          /\ UNCHANGED faults
       \/ /\ ~picam.started
          /\ thread' = on_capture_exception(t)
          /\ UNCHANGED <<clock, faults>>
       \/ /\ picam.started
          /\ faults < MaxFaults
          /\ faults' = faults + 1
          /\ thread' = on_capture_exception(t)
          /\ UNCHANGED clock
    /\ UNCHANGED <<app_quality_mode, quality_config, picam, is_streaming, stop_capture,
                   capture_thread, frame_buffer, buffer_lock, pushed, req, clients>>
    /\ UNCHANGED <<stoVars, wsVars, extVars>>

\* with self._buffer_lock: self._frame_buffer.append(frame_data) (lines 242-243)
AcqPush(t) ==
    /\ t.pc = "push"
    /\ buffer_lock = 0
    /\ buffer_lock' = 1
    /\ frame_buffer' = Append(frame_buffer, t.frame)
    /\ pushed' = Append(pushed, t.frame)
    /\ thread' = Moved(t, [t EXCEPT !.pc = "evict", !.frame = 0])
    /\ UNCHANGED <<app_quality_mode, quality_config, picam, is_streaming, stop_capture,
                   capture_thread, clock, req, clients, faults>>
    /\ UNCHANGED <<stoVars, wsVars, extVars>>

\* if len(self._frame_buffer) > 3: pop(0); the lock is released; sleep (244-247)
AcqEvict(t) ==
    /\ t.pc = "evict"
    /\ buffer_lock = 1
    /\ frame_buffer' = evict(frame_buffer)
    /\ buffer_lock' = 0
    /\ thread' = Moved(t, [t EXCEPT !.pc = "loop"])
    /\ UNCHANGED <<app_quality_mode, quality_config, picam, is_streaming, stop_capture,
                   capture_thread, clock, pushed, req, clients, faults>>
    /\ UNCHANGED <<stoVars, wsVars, extVars>>

\* the request is inside a run of statements that contains no await: the
\* blocking join (line 447), configure and start after a stop (459-461, 480-482,
\* 520-522, 553-555, 597-599, 626-628), the except clauses (490-502, 560-563,
\* 633-636, 432-435)
InSyncBlock(q) ==
    q.pc \in {"join", "configure", "start", "r_configure", "r_start",
              "e_stop", "e_configure", "e_start", "e_thread", "raise"}

\* mutant: a lock around capture_photo_enhanced, one request at a time
loop_free_one_request(r) == \A o \in ReqIds \ {r} : req[o].pc \in {"idle", "done"}

\* the event loop runs one coroutine at a time and switches only at an await:
\* request r takes a step when no other request is inside such a run
loop_free(r) == \A o \in ReqIds \ {r} : ~InSyncBlock(req[o])

\* values a client gives for the quality mode: the keys of QUALITY_CONFIGS and
\* another one
QualityRequests == QualityModes \cup {"ultra"}

\* set_quality_mode(mode) (lines 213-218): a key of QUALITY_CONFIGS replaces the
\* active configuration, any other value is ignored
set_quality_mode(mode) ==
    quality_config' = IF mode \in QualityModes THEN mode ELSE quality_config

\* update_settings (lines 1019-1048): app_settings takes the posted quality_mode
\* whatever it is, then set_quality_mode is called with it
UpdateSettings ==
    /\ \A r \in ReqIds : ~InSyncBlock(req[r])
    /\ \E m \in QualityRequests :
          /\ app_quality_mode' = m
          /\ set_quality_mode(m)
    /\ UNCHANGED <<picam, is_streaming, stop_capture, capture_thread, thread,
                   frame_buffer, buffer_lock, clock, pushed, req, clients, faults>>
    /\ UNCHANGED <<stoVars, wsVars, extVars>>

(***************************************************************************)
(* The capture orchestrator: capture_photo_enhanced and its three profiles *)
(***************************************************************************)
\* capture_photo_enhanced lines 425-430: the profile the settings select
profile_of(mode) ==
    IF mode = "expert" THEN "bracketed"
    ELSE IF mode = "haute" THEN "multi"
    ELSE "standard"

\* the number of shots a profile takes: one (standard, line 464), the active
\* configuration's multiple_shots (line 508), one per exposure (line 583)
shots_of(kind, config) ==
    CASE kind = "standard" -> 1
      [] kind = "multi" -> multiple_shots(config)
      [] kind = "bracketed" -> Len(exposures)

\* mutant: every shot replaces the best one
better_shot_always(score, best_score) == TRUE

\* lines 534, 607: if score > best_score
better_shot(score, best_score) == score > best_score

\* mutant: the emergency restore reconfigures without stopping first
handler_pc_no_stop(kind) == IF kind = "standard" THEN "e_configure" ELSE "raise"

\* where an exception raised inside a profile's try block lands: the emergency
\* restore of _capture_standard (lines 490-502), or the bare handlers of the two
\* other profiles (lines 560-563, 633-636)
handler_pc(kind) == IF kind = "standard" THEN "e_stop" ELSE "raise"

\* picamera2: configure() is refused while the device runs
device_accepts(op) == op = "configure" => ~picam.started

device_after(op, cfg) ==
    CASE op = "stop" -> [picam EXCEPT !.started = FALSE]
      [] op = "configure" -> [picam EXCEPT !.config = cfg]
      [] op = "start" -> [picam EXCEPT !.started = TRUE]

\* one picam2.stop() / configure(cfg) / start() call of request r at pc `at`:
\* it returns and the request goes to `next`, or raises and goes to `failed`
DeviceCall(r, at, op, cfg, next, failed) ==
    /\ req[r].pc = at
    /\ loop_free(r)
    /\ \/ /\ device_accepts(op)
          /\ picam' = device_after(op, cfg)
          /\ req' = [req EXCEPT ![r].pc = next,
                                ![r].restore = IF at = "e_stop" THEN TRUE ELSE @,
                                ![r].used = IF at = "configure" /\ req[r].kind = "bracketed"
                                            THEN Append(@, exposures[req[r].taken + 1])
                                            ELSE @]
          /\ UNCHANGED faults
       \/ /\ device_accepts(op) => faults < MaxFaults
          /\ faults' = IF device_accepts(op) THEN faults + 1 ELSE faults
          /\ req' = [req EXCEPT ![r].pc = failed,
                                ![r].restore = IF at = "e_stop" THEN TRUE ELSE @]
          /\ UNCHANGED picam
    /\ UNCHANGED <<app_quality_mode, quality_config, is_streaming, stop_capture,
                   capture_thread, thread, frame_buffer, buffer_lock, clock, pushed,
                   clients>>
    /\ UNCHANGED <<stoVars, wsVars, extVars>>

\* the request once capture_photo_enhanced has returned or raised: the frame's
\* locals are gone, the outcome stays
Returned(q, result) ==
    [IdleReq EXCEPT !.pc = "done", !.kind = q.kind, !.result = result,
                    !.restore = q.restore,
                    !.written = q.written, !.write_result = q.write_result]

\* capture_photo_enhanced: dispatch on the quality mode, then the profile's first
\* statements up to its first await (is_streaming = False; shots, best_* set)
CapturePhotoEnhanced(r) ==
    /\ req[r].pc \in {"idle", "done"}
    /\ loop_free(r)
    /\ picam.present
    /\ LET kind == profile_of(app_quality_mode) IN
       req' = [req EXCEPT ![r] = [IdleReq EXCEPT
                  !.pc = IF kind = "standard" THEN "pause" ELSE "stop",
                  !.kind = kind,
                  !.shots = shots_of(kind, quality_config)]]
    /\ is_streaming' = FALSE
    /\ UNCHANGED <<app_quality_mode, quality_config, picam, stop_capture, capture_thread,
                   thread, frame_buffer, buffer_lock, clock, pushed, clients, faults>>
    /\ UNCHANGED <<stoVars, wsVars, extVars>>

\* _capture_standard lines 443-446: was_capturing, the stop flag, is_alive()
PauseAcquisition(r) ==
    /\ req[r].pc = "pause"
    /\ loop_free(r)
    /\ LET was == ~stop_capture IN
       /\ stop_capture' = (IF was THEN TRUE ELSE stop_capture)
       /\ req' = [req EXCEPT ![r].was_capturing = was,
                             ![r].paused = TRUE,
                             ![r].pc = IF was /\ is_alive
                                       THEN "join" ELSE "stop"]
    /\ UNCHANGED <<app_quality_mode, quality_config, picam, is_streaming, capture_thread,
                   thread, frame_buffer, buffer_lock, clock, pushed, clients, faults>>
    /\ UNCHANGED <<stoVars, wsVars, extVars>>

\* self._capture_thread.join(timeout=1.0): returns when the thread has ended or
\* when the timeout elapses, whichever comes first
JoinAcquisition(r) ==
    /\ req[r].pc = "join"
    /\ loop_free(r)
    /\ req' = [req EXCEPT ![r].pc = "stop"]
    /\ UNCHANGED <<app_quality_mode, quality_config, picam, is_streaming, stop_capture,
                   capture_thread, thread, frame_buffer, buffer_lock, clock, pushed,
                   clients, faults>>
    /\ UNCHANGED <<stoVars, wsVars, extVars>>

\* picam2.stop() before the still shot (lines 459, 520, 597)
DeviceStop(r) ==
    DeviceCall(r, "stop", "stop", "none", "configure", handler_pc(req[r].kind))

\* picam2.configure(self.still_config) (460, 521) or configure(config) (598)
DeviceConfigure(r) ==
    DeviceCall(r, "configure", "configure",
               IF req[r].kind = "bracketed" THEN "bracket" ELSE "still",
               "start", handler_pc(req[r].kind))

\* picam2.start() (lines 461, 522, 599)
DeviceStart(r) ==
    DeviceCall(r, "start", "start", "none", "shot", handler_pc(req[r].kind))

\* array = self.picam2.capture_array() and, in the scoring profiles, the score
\* and the best-shot update (lines 464-465, 528-536, 602-609)
TakeShot(r) ==
    /\ req[r].pc = "shot"
    /\ loop_free(r)
    /\ \/ /\ picam.started
          /\ \E sc \in (IF req[r].kind = "standard" THEN {0} ELSE Scores) :
                LET n == req[r].taken + 1
                    scored == req[r].kind # "standard"
                    wins == scored /\ better_shot(sc, req[r].best_score)
                IN req' = [req EXCEPT
                      ![r].taken = n,
                      ![r].scores = IF scored THEN Append(@, sc) ELSE @,
                      ![r].best_score = IF wins THEN sc ELSE @,
                      ![r].best_image = IF wins THEN n ELSE @,
                      ![r].pc = IF n < req[r].shots
                                THEN (IF req[r].kind = "bracketed" THEN "stop" ELSE "shot")
                                ELSE "write"]
          /\ UNCHANGED faults
       \/ /\ picam.started => faults < MaxFaults
          /\ faults' = IF picam.started THEN faults + 1 ELSE faults
          /\ req' = [req EXCEPT ![r].pc = handler_pc(req[r].kind)]
    /\ UNCHANGED <<app_quality_mode, quality_config, picam, is_streaming, stop_capture,
                   capture_thread, thread, frame_buffer, buffer_lock, clock, pushed,
                   clients>>
    /\ UNCHANGED <<stoVars, wsVars, extVars>>

\* the frame handed to cv2.imwrite: the single shot, or best_image (0 is None)
image_to_write(q) == IF q.kind = "standard" THEN q.taken ELSE q.best_image

\* enhance_image, then cv2.imwrite on the executor (lines 468-475, 541-548,
\* 614-621): skipped when best_image is None; its boolean result is dropped
WriteImage(r) ==
    /\ req[r].pc = "write"
    /\ loop_free(r)
    /\ \/ /\ image_to_write(req[r]) = 0
          /\ req' = [req EXCEPT ![r].pc = "r_stop"]
          /\ UNCHANGED faults
       \/ /\ image_to_write(req[r]) # 0
          /\ req' = [req EXCEPT ![r].pc = "r_stop",
                                ![r].written = image_to_write(req[r]),
                                ![r].write_result = "true"]
          /\ UNCHANGED faults
       \/ /\ image_to_write(req[r]) # 0
          /\ faults < MaxFaults
          /\ faults' = faults + 1
          /\ \/ req' = [req EXCEPT ![r].pc = "r_stop",
                                   ![r].written = image_to_write(req[r]),
                                   ![r].write_result = "false"]
             \/ req' = [req EXCEPT ![r].pc = handler_pc(req[r].kind)]
    /\ UNCHANGED <<app_quality_mode, quality_config, picam, is_streaming, stop_capture,
                   capture_thread, thread, frame_buffer, buffer_lock, clock, pushed,
                   clients>>
    /\ UNCHANGED <<stoVars, wsVars, extVars>>

\* restore: stop / configure(preview_config) / start (480-482, 553-555, 626-628)
RestoreStop(r) ==
    DeviceCall(r, "r_stop", "stop", "none", "r_configure", handler_pc(req[r].kind))

RestoreConfigure(r) ==
    DeviceCall(r, "r_configure", "configure", "preview", "r_start",
               handler_pc(req[r].kind))

RestoreStart(r) ==
    DeviceCall(r, "r_start", "start", "none", "finish", handler_pc(req[r].kind))

\* after the restore's sleep: the standard profile restarts the acquisition
\* thread it stopped (485-486); is_streaming = True; return str(filepath)
CaptureFinish(r) ==
    /\ req[r].pc = "finish"
    /\ loop_free(r)
    /\ IF req[r].kind = "standard" /\ req[r].was_capturing
       THEN start_background_capture
       ELSE UNCHANGED <<stop_capture, thread, capture_thread>>
    /\ is_streaming' = TRUE
    /\ req' = [req EXCEPT ![r] = Returned(req[r], "path")]
    /\ UNCHANGED <<app_quality_mode, quality_config, picam, frame_buffer, buffer_lock,
                   clock, pushed, clients, faults>>
    /\ UNCHANGED <<stoVars, wsVars, extVars>>

\* the emergency restore of _capture_standard (493-501); a failure inside it
\* is swallowed (except: pass) and the original exception is re-raised
EmergencyStop(r) ==
    DeviceCall(r, "e_stop", "stop", "none", "e_configure", "raise")

EmergencyConfigure(r) ==
    DeviceCall(r, "e_configure", "configure", "preview", "e_start", "raise")

EmergencyStart(r) ==
    DeviceCall(r, "e_start", "start", "none", "e_thread", "raise")

EmergencyRestart(r) ==
    /\ req[r].pc = "e_thread"
    /\ loop_free(r)
    /\ IF req[r].was_capturing
       THEN start_background_capture
       ELSE UNCHANGED <<stop_capture, thread, capture_thread>>
    /\ is_streaming' = TRUE
    /\ req' = [req EXCEPT ![r].pc = "raise"]
    /\ UNCHANGED <<app_quality_mode, quality_config, picam, frame_buffer, buffer_lock,
                   clock, pushed, clients, faults>>
    /\ UNCHANGED <<stoVars, wsVars, extVars>>

\* the exception leaves the profile (raise at 502; is_streaming = True; raise at
\* 562-563, 635-636) and capture_photo_enhanced (is_streaming = True; raise, 432-435)
CaptureRaise(r) ==
    /\ req[r].pc = "raise"
    /\ loop_free(r)
    /\ is_streaming' = TRUE
    /\ req' = [req EXCEPT ![r] = Returned(req[r], "raised")]
    /\ UNCHANGED <<app_quality_mode, quality_config, picam, stop_capture, capture_thread,
                   thread, frame_buffer, buffer_lock, clock, pushed, clients, faults>>
    /\ UNCHANGED <<stoVars, wsVars, extVars>>

(***************************************************************************)
(* Claims about the acquisition loop and the frame buffer (SpecAcq)        *)
(***************************************************************************)
\* the last n elements of s, all of s when it is shorter
LastN(s, n) == IF Len(s) <= n THEN s ELSE SubSeq(s, Len(s) - n + 1, Len(s))

\* C1: whenever the buffer lock is free the frame buffer holds at most 3 frames,
\* namely the last 3 frames pushed, in push order (all of them while fewer than
\* 4 were pushed), and _get_latest_frame returns the most recently pushed frame;
\* under the lock the buffer never exceeds 4 frames.
C1_RingBuffer ==
    /\ Len(frame_buffer) <= BufferCapacity + 1
    /\ buffer_lock = 0 =>
          /\ Len(frame_buffer) <= BufferCapacity
          /\ frame_buffer = LastN(pushed, BufferCapacity)
          /\ pushed # <<>> => get_latest_frame(frame_buffer) = pushed[Len(pushed)]
          /\ pushed = <<>> => get_latest_frame(frame_buffer) = 0

\* C1 witness: more than 3 frames were pushed, by two producers whose pushes did
\* not follow the capture order, and the lock is free
C1_Witness ==
    /\ buffer_lock = 0
    /\ Len(pushed) > BufferCapacity
    /\ \E i \in 1..(Len(pushed) - 1) : pushed[i] > pushed[i + 1]
    /\ get_latest_frame(frame_buffer) = pushed[Len(pushed)]

\* the number of threads of bag b at position pc
CountAt(b, pc) ==
    LET at == {t \in BagToSet(b) : t.pc = pc} IN
    BagCardinality([t \in at |-> b[t]])

\* C27: an exception raised by the device capture inside the acquisition loop
\* never ends the loop, a device that is not ready causes no capture and no
\* push in that iteration, and a thread leaves the loop only because the stop
\* flag is set.
C27_LoopSurvivesFaults ==
    [][ /\ BagCardinality(thread') < BagCardinality(thread) =>
              /\ stop_capture
              /\ CountAt(thread', "loop") < CountAt(thread, "loop")
        /\ clock' # clock =>
              /\ picam.present /\ picam.started
              /\ CountAt(thread', "push") > CountAt(thread, "push")
        /\ CountAt(thread', "capture") > CountAt(thread, "capture") =>
              picam.present /\ picam.started
        /\ pushed' # pushed =>
              CountAt(thread', "push") < CountAt(thread, "push")
      ]_vars

\* the first frame, captured by a thread after a capture of the loop raised
C27_Witness ==
    /\ faults > 0
    /\ \A r \in ReqIds : req[r].pc = "idle"
    /\ \E t \in Threads : t.pc = "push" /\ t.frame = 1

\* C18 (as claimed): while the stop flag is clear at most one acquisition
\* thread is alive, also after a pause whose bounded join timed out.
C18_SingleProducer ==
    ~stop_capture => BagCardinality(thread) <= 1

(***************************************************************************)
(* Claims about the capture orchestrator (SpecCap)                         *)
(***************************************************************************)
\* the request is between picam2.stop() and picam2.start() of the still shot
Reconfiguring(q) == q.pc \in {"stop", "configure", "start"}

\* C2 (as claimed): in every profile, when the device is stopped and
\* reconfigured for the still shot the orchestrator has set the stop flag and
\* attempted the bounded join on the acquisition thread.
C2_PausedBeforeReconfigure ==
    \A r \in ReqIds :
       Reconfiguring(req[r]) => (req[r].paused /\ stop_capture)

\* C3 (as claimed): a capture that ends by re-raising a failure has attempted
\* the emergency restore, and leaves the device started in preview configuration.
C3_EmergencyRestore ==
    \A r \in ReqIds :
       (req[r].pc = "done" /\ req[r].result = "raised")
          => (req[r].restore /\ picam.started /\ picam.config = "preview")

Scoring(q) == q.kind \in {"multi", "bracketed"}
\* the shots are taken: the request is at the write, the restore or the return
ShotsTaken(q) == q.pc \in {"write", "r_stop", "r_configure", "r_start", "finish"}

\* C10: in a multi-shot or bracketed capture best_score is at least the score of
\* every shot taken so far; the frame handed to the writer is a shot whose score
\* is best_score; once the shots are taken there are exactly k of them, k = 3
\* (multiple_shots of the haute configuration) or one per exposure of the fixed
\* list, in its order.
C10_BestShotKept ==
    \A r \in ReqIds :
       LET q == req[r] IN
       (Scoring(q) /\ q.pc # "done") =>
          /\ \A i \in 1..Len(q.scores) : q.best_score >= q.scores[i]
          /\ q.best_image # 0 =>
                /\ q.best_image \in 1..Len(q.scores)
                /\ q.scores[q.best_image] = q.best_score
          /\ q.written # 0 => q.written = q.best_image
          /\ (ShotsTaken(q) /\ q.pc # "write" /\ q.best_image # 0) => q.written # 0
          /\ ShotsTaken(q) =>
                /\ q.taken = q.shots /\ Len(q.scores) = q.shots
                /\ q.kind = "multi" => q.shots = multiple_shots("haute")
                /\ q.kind = "bracketed" => (q.shots = Len(exposures) /\ q.used = exposures)

\* C10 witness: a multi-shot capture scored 1, 3, 2, wrote its second shot and is
\* about to return
C10_Witness ==
    \E r \in ReqIds :
       /\ req[r].kind = "multi" /\ req[r].pc = "finish"
       /\ req[r].scores = <<1, 3, 2>>
       /\ req[r].written = 2 /\ req[r].write_result = "true"
       /\ req[r].best_score = 3

\* the capture of request q returned its path
ReturnedPath(q) == q.pc = "done" /\ q.result = "path"

\* C13 (as claimed): after every capture that returns its path, whatever the
\* profile and whatever captures came before, the device is started in preview
\* configuration, the streaming flag is set, the stop flag of the acquisition
\* loop is clear and an acquisition thread is alive.
C13_PreviewRestored ==
    \A r \in ReqIds :
       ReturnedPath(req[r]) =>
          /\ picam.started /\ picam.config = "preview"
          /\ is_streaming
          /\ ~stop_capture
          /\ thread # EmptyBag

\* the request is about to call picam2.configure
AtConfigure(q) == q.pc \in {"configure", "r_configure", "e_configure"}

\* C17: every picam2.configure call, at initialization, before a still shot, in
\* the restore and in the emergency restore, with one or two capture requests
\* in progress, is issued while the device is stopped; none is refused.
C17_ConfigureWhileStopped ==
    /\ ~picam.present => ~picam.started
    /\ \A r \in ReqIds : AtConfigure(req[r]) => ~picam.started

\* C17 witness: a second request is at the configure of its emergency restore
\* while the first, between its still shot and its restore, has left the device
\* in still configuration
C17_Witness ==
    /\ req[2].pc = "e_configure"
    /\ req[1].pc = "r_stop"
    /\ picam.config = "still"
    /\ ~picam.started

\* C30: no guard serializes capture requests: a request is accepted whenever
\* the event loop can run it, whatever the position of the other request, so
\* both can be between disabling streaming and restoring it, and the second
\* can then capture its frame after the first has restored the preview
\* configuration.
C30_NoSerialization ==
    \A r \in ReqIds :
       (/\ picam.present
        /\ req[r].pc \in {"idle", "done"}
        /\ \A o \in ReqIds \ {r} : ~InSyncBlock(req[o]))
          => ENABLED CapturePhotoEnhanced(r)

\* both requests in flight, the first past its preview restore, the second
\* about to capture its still frame from a device in preview configuration
C30_Witness ==
    /\ req[1].pc = "finish"
    /\ req[2].pc = "shot" /\ req[2].taken = 0
    /\ ~is_streaming
    /\ picam.config = "preview" /\ picam.started
    /\ ENABLED TakeShot(2)

\* C14 (as claimed): a capture returns its path only if the image writer was
\* called and answered true.
C14_PathImpliesWritten ==
    \A r \in ReqIds :
       ReturnedPath(req[r]) => req[r].write_result = "true"

\* C15 (as claimed): a capture that has written an image has done so by a
\* save_file call of the storage manager.
C15_SavedThroughStorage ==
    \A r \in ReqIds :
       req[r].written # 0 => last_call.op = "save_file"

(***************************************************************************)
(* websocket_endpoint, handle_capture_command, handle_focus_command        *)
(***************************************************************************)
\* a JSON message as the handlers build it; the text is kept as a tag
Msg(type, message) == [type |-> type, message |-> message]
NoMsg == Msg("none", "none")

\* zoom coordinates a client sends, in tenths
ZoomCoords == {2, 8}
\* lens positions the autofocus reports (0 is None)
LensPositions == {0, 1, 2}
\* values of the "lighting" key
LightingTypes == {"blanc", "uv", "other"}

\* EnhancedCameraManager.__init__: zoom_factor = 1.0, zoom_center = (0.5, 0.5)
zoom0 == [factor |-> 1, center |-> <<5, 5>>]

\* mutant: the zoom factor is set and the center of the previous command kept
set_zoom_point_keep_center(x, y) == [factor |-> 2, center |-> zoom.center]

\* set_zoom_point (lines 682-686): zoom_center = (x, y), zoom_factor = 2.0
set_zoom_point(x, y) == [factor |-> 2, center |-> <<x, y>>]

\* reset_zoom (lines 688-692): zoom_factor = 1.0, zoom_center = (0.5, 0.5)
reset_zoom == [factor |-> 1, center |-> <<5, 5>>]

\* the last zoom command handled and the kind of the one before it
ZoomCmd(op, x, y) == [op |-> op, x |-> x, y |-> y, prev |-> zoom_cmd.op]

\* the module before a client connects
WsInit ==
    /\ current_websocket = 0
    /\ ws = [state |-> "none", pc |-> "none", pending |-> NoMsg]
    /\ peer = "down"
    /\ sent = <<>>
    /\ capture = "none"
    /\ zoom = zoom0
    /\ current_focus = 0

\* websocket.send_text delivers while the client's end is up and raises otherwise
send_ok == peer = "up"

\* an exception leaves the receive loop (lines 1158-1163): current_websocket is
\* cleared and the endpoint returns
endpoint_exit ==
    /\ ws' = [state |-> "closed", pc |-> "none", pending |-> NoMsg]
    /\ current_websocket' = 0

\* the status line of the "lighting" branch (lines 1120-1129)
lighting_status(lighting_type, success) ==
    CASE lighting_type = "blanc" -> IF success THEN "leds_on" ELSE "leds_error"
      [] lighting_type = "uv" -> IF success THEN "uv_on" ELSE "uv_error"
      [] OTHER -> "lighting_unknown"

\* websocket.accept(); current_websocket = websocket (lines 1093-1094); the
\* server takes connections once startup_event has run initialize() (985-991)
WsAccept ==
    /\ picam.present
    /\ ws.state # "open"
    /\ ws' = [state |-> "open", pc |-> "receive", pending |-> NoMsg]
    /\ current_websocket' = 1
    /\ peer' = "up"
    /\ UNCHANGED <<sent, capture, zoom, current_focus>>
    /\ UNCHANGED <<camVars, stoVars, extVars>>

\* the client goes away
PeerDrop ==
    /\ ws.state = "open"
    /\ peer = "up"
    /\ peer' = "down"
    /\ UNCHANGED <<current_websocket, ws, sent, capture, zoom, current_focus>>
    /\ UNCHANGED <<camVars, stoVars, extVars>>

\* receive_text() raises WebSocketDisconnect (lines 1098, 1158-1160)
WsDisconnect ==
    /\ ws.state = "open" /\ ws.pc = "receive"
    /\ peer = "down"
    /\ endpoint_exit
    /\ UNCHANGED <<peer, sent, capture, zoom, current_focus>>
    /\ UNCHANGED <<camVars, stoVars, extVars>>

\* receive_text() returns a message: the history of the previous command ends
Receives ==
    /\ ws.state = "open" /\ ws.pc = "receive"
    /\ peer = "up"

\* the message is handled up to the await of its reply
Handled(reply) ==
    /\ ws' = [ws EXCEPT !.pc = "reply", !.pending = reply]
    /\ sent' = <<>>
    /\ capture' = "none"
    /\ UNCHANGED <<current_websocket, peer>>

\* {"zoomTo": [x, y]} (lines 1104-1110) with set_zoom_point (682-686)
WsZoomTo ==
    /\ Receives
    /\ \E x \in ZoomCoords, y \in ZoomCoords :
          /\ zoom' = set_zoom_point(x, y)
          /\ zoom_cmd' = ZoomCmd("set", x, y)
    /\ Handled(Msg("status", "zoom_set"))
    /\ UNCHANGED <<current_focus, dec, rendered, shutdown, af, histVars>>
    /\ UNCHANGED <<camVars, stoVars>>

\* {"resetZoom": ...} (lines 1112-1117) with reset_zoom (688-692)
WsResetZoom ==
    /\ Receives
    /\ zoom' = reset_zoom
    /\ zoom_cmd' = ZoomCmd("reset", 5, 5)
    /\ Handled(Msg("status", "zoom_reset"))
    /\ UNCHANGED <<current_focus, dec, rendered, shutdown, af, histVars>>
    /\ UNCHANGED <<camVars, stoVars>>

\* {"lighting": t} (lines 1119-1134); send_serial_signal answers True or False
WsLighting ==
    /\ Receives
    /\ \E t \in LightingTypes, success \in BOOLEAN :
          Handled(Msg("status", lighting_status(t, success)))
    /\ UNCHANGED <<zoom, current_focus>>
    /\ UNCHANGED <<camVars, stoVars, extVars>>

\* {"quality_mode": m} (lines 1136-1145): a key of QUALITY_CONFIGS is applied
\* and acknowledged, any other value is dropped without a reply. When
\* set_quality_mode raises while it rebuilds the still configuration (line 216)
\* the assignments are made and the exception leaves the receive loop
WsQualityMode ==
    /\ Receives
    /\ sent' = <<>>
    /\ capture' = "none"
    /\ \E m \in QualityRequests :
          IF m \in QualityModes
          THEN /\ app_quality_mode' = m
               /\ set_quality_mode(m)
               /\ \/ /\ ws' = [ws EXCEPT !.pc = "reply",
                                          !.pending = Msg("status", "quality_changed")]
                     /\ UNCHANGED current_websocket
                  \/ endpoint_exit
          ELSE UNCHANGED <<app_quality_mode, quality_config, ws, current_websocket>>
    /\ UNCHANGED <<peer, zoom, current_focus>>
    /\ UNCHANGED <<picam, is_streaming, stop_capture, capture_thread, thread,
                   frame_buffer, buffer_lock, clock, pushed, req, clients, faults>>
    /\ UNCHANGED <<stoVars, extVars>>

\* text that is not JSON and neither "capture" nor "focus" (lines 1152-1156)
WsUnknownCommand ==
    /\ Receives
    /\ Handled(Msg("error", "unknown_command"))
    /\ UNCHANGED <<zoom, current_focus>>
    /\ UNCHANGED <<camVars, stoVars, extVars>>

\* await websocket.send_text(...) of a branch of the receive loop: delivered, or
\* the exception leaves the loop
WsReply ==
    /\ ws.state = "open" /\ ws.pc = "reply"
    /\ IF send_ok
       THEN /\ sent' = Append(sent, ws.pending)
            /\ ws' = [ws EXCEPT !.pc = "receive", !.pending = NoMsg]
            /\ UNCHANGED current_websocket
       ELSE /\ endpoint_exit
            /\ UNCHANGED sent
    /\ UNCHANGED <<peer, capture, zoom, current_focus>>
    /\ UNCHANGED <<camVars, stoVars, extVars>>

\* "capture" (lines 1148-1149): handle_capture_command is entered
WsCapture ==
    /\ Receives
    /\ ws' = [ws EXCEPT !.pc = "cap_status"]
    /\ sent' = <<>>
    /\ capture' = "running"
    /\ UNCHANGED <<current_websocket, peer, zoom, current_focus>>
    /\ UNCHANGED <<camVars, stoVars, extVars>>

\* handle_capture_command lines 1172-1175: the initial status message; a failed
\* send lands in the handler's except clause (line 1232)
CaptureSendStatus ==
    /\ ws.state = "open" /\ ws.pc = "cap_status"
    /\ IF send_ok
       THEN /\ sent' = Append(sent, Msg("status", "capturing"))
            /\ ws' = [ws EXCEPT !.pc = "cap_capture"]
       ELSE /\ ws' = [ws EXCEPT !.pc = "cap_error"]
            /\ UNCHANGED sent
    /\ UNCHANGED <<current_websocket, peer, capture, zoom, current_focus>>
    /\ UNCHANGED <<camVars, stoVars, extVars>>

\* line 1183: camera_manager.capture_photo(manual_of). EnhancedCameraManager
\* defines capture_photo_enhanced and no capture_photo, so the attribute lookup
\* raises AttributeError in every execution and lines 1184-1230 (decode, image
\* listing, capture_result, final status) are never reached
CaptureCallCapturePhoto ==
    /\ ws.state = "open" /\ ws.pc = "cap_capture"
    /\ ws' = [ws EXCEPT !.pc = "cap_error"]
    /\ UNCHANGED <<current_websocket, peer, sent, capture, zoom, current_focus>>
    /\ UNCHANGED <<camVars, stoVars, extVars>>

\* the except clause, lines 1232-1238: the error message is sent and the handler
\* returns, or the send raises and the exception leaves the handler and the
\* receive loop
CaptureSendError ==
    /\ ws.state = "open" /\ ws.pc = "cap_error"
    /\ IF send_ok
       THEN /\ sent' = Append(sent, Msg("error", "capture_error"))
            /\ ws' = [ws EXCEPT !.pc = "receive"]
            /\ capture' = "returned"
            /\ UNCHANGED current_websocket
       ELSE /\ endpoint_exit
            /\ capture' = "raised"
            /\ UNCHANGED sent
    /\ UNCHANGED <<peer, zoom, current_focus>>
    /\ UNCHANGED <<camVars, stoVars, extVars>>

\* "focus" (lines 1150-1151): handle_focus_command is entered
WsFocus ==
    /\ Receives
    /\ ws' = [ws EXCEPT !.pc = "focus_status"]
    /\ sent' = <<>>
    /\ capture' = "none"
    /\ focus_run' = "none"
    /\ UNCHANGED <<current_websocket, peer, zoom, current_focus>>
    /\ UNCHANGED <<dec, rendered, zoom_cmd, shutdown, af, seg, still, names>>
    /\ UNCHANGED <<camVars, stoVars>>

\* handle_focus_command lines 1244-1247
FocusSendStatus ==
    /\ ws.state = "open" /\ ws.pc = "focus_status"
    /\ IF send_ok
       THEN /\ sent' = Append(sent, Msg("status", "focus_running"))
            /\ ws' = [ws EXCEPT !.pc = "focus_auto"]
       ELSE /\ ws' = [ws EXCEPT !.pc = "focus_error"]
            /\ UNCHANGED sent
    /\ UNCHANGED <<current_websocket, peer, capture, zoom, current_focus>>
    /\ UNCHANGED <<camVars, stoVars, extVars>>

\* focus_auto (lines 640-680): the lens position found is kept; an exception,
\* as when picam2 is None, is logged and swallowed
FocusAuto ==
    /\ ws.state = "open" /\ ws.pc = "focus_auto"
    /\ \/ /\ picam.present
          /\ \E f \in LensPositions : current_focus' = f
          /\ focus_run' = "latched"
       \/ /\ UNCHANGED current_focus
          /\ focus_run' = "failed"
    /\ ws' = [ws EXCEPT !.pc = "focus_done"]
    /\ UNCHANGED <<current_websocket, peer, sent, capture, zoom>>
    /\ UNCHANGED <<dec, rendered, zoom_cmd, shutdown, af, seg, still, names>>
    /\ UNCHANGED <<camVars, stoVars>>

\* lines 1251-1254
FocusSendDone ==
    /\ ws.state = "open" /\ ws.pc = "focus_done"
    /\ IF send_ok
       THEN /\ sent' = Append(sent, Msg("status", "focus_done"))
            /\ ws' = [ws EXCEPT !.pc = "receive"]
       ELSE /\ ws' = [ws EXCEPT !.pc = "focus_error"]
            /\ UNCHANGED sent
    /\ UNCHANGED <<current_websocket, peer, capture, zoom, current_focus>>
    /\ UNCHANGED <<camVars, stoVars, extVars>>

\* the except clause, lines 1256-1261
FocusSendError ==
    /\ ws.state = "open" /\ ws.pc = "focus_error"
    /\ IF send_ok
       THEN /\ sent' = Append(sent, Msg("error", "focus_error"))
            /\ ws' = [ws EXCEPT !.pc = "receive"]
            /\ UNCHANGED current_websocket
       ELSE /\ endpoint_exit
            /\ UNCHANGED sent
    /\ UNCHANGED <<peer, capture, zoom, current_focus>>
    /\ UNCHANGED <<camVars, stoVars, extVars>>

(***************************************************************************)
(* Claims about the command handlers (SpecWs)                              *)
(***************************************************************************)
\* C37 (as claimed): in every reachable state the quality mode held in the
\* settings store names the same profile as the camera manager's active quality
\* configuration, after any sequence of settings updates and quality-mode
\* commands, updates with an unknown mode included.
C37_QualityModeAgrees == app_quality_mode = quality_config

\* the success status of handle_focus_command was delivered
FocusSuccessSent == \E i \in DOMAIN sent : sent[i] = Msg("status", "focus_done")

\* C33 (as claimed): a focus command is answered with the success status only
\* if the autofocus routine completed, the lens position latched and the lens
\* in manual mode; a routine that failed is answered with an error report.
C33_SuccessOnlyIfLatched ==
    /\ FocusSuccessSent => focus_run = "latched"
    /\ (focus_run = "failed" /\ ws.pc = "receive" /\ sent # <<>>) =>
          \E i \in DOMAIN sent : sent[i].type = "error"

\* the terminal reports among the messages delivered: capture_result or error
TerminalReports(msgs) ==
    Cardinality({i \in DOMAIN msgs : msgs[i].type \in {"capture_result", "error"}})

\* C4 (as claimed): once a capture command has ended, by the handler returning
\* or by an exception leaving it, exactly one terminal report (capture_result or
\* error) was delivered to the caller.
C4_OneTerminalReport ==
    capture \in {"returned", "raised"} => TerminalReports(sent) = 1

\* C16 (as claimed): a capture command received while the device is initialized
\* and whose handler returned has been answered with a capture_result message
\* and with no error message.
C16_CaptureAnswered ==
    (capture = "returned" /\ picam.present) =>
       /\ \E i \in DOMAIN sent : sent[i].type = "capture_result"
       /\ \A i \in DOMAIN sent : sent[i].type # "error"

(***************************************************************************)
(* get_video_stream and _apply_zoom_optimized                              *)
(***************************************************************************)
\* the preview frame and the placeholder frame: 1280 x 720 (lines 134, 313)
FrameW == 1280
FrameH == 720

Max(a, b) == IF a >= b THEN a ELSE b
Min(a, b) == IF a <= b THEN a ELSE b

\* the whole frame as a box <<x1, y1, x2, y2>>
FullFrame(w, h) == <<0, 0, w, h>>

\* _apply_zoom_optimized (lines 349-360) on a w x h frame: the box cropped out
\* of the frame; the center is in tenths, so int(center * w) is (c * w) \div 10
apply_zoom(w, h, z) ==
    LET cx == (z.center[1] * w) \div 10
        cy == (z.center[2] * h) \div 10
        box_w == w \div z.factor
        box_h == h \div z.factor
        x1 == Max(0, cx - box_w \div 2)
        y1 == Max(0, cy - box_h \div 2)
        x2 == Min(w, x1 + box_w)
        y2 == Min(h, y1 + box_h)
    IN <<x1, y1, x2, y2>>

\* nothing rendered yet
rendered0 == [kind |-> "none", frame |-> 0, zoom |-> zoom0, box |-> FullFrame(0, 0)]

\* one iteration of get_video_stream (lines 304-341) while is_streaming: the
\* placeholder frame when the buffer is empty, otherwise the latest frame,
\* cropped when zoom_factor > 1.0
\* mutant: the loop waits until a frame is buffered
CanEmit_when_buffered ==
    /\ is_streaming
    /\ buffer_lock = 0
    /\ \A r \in ReqIds : ~InSyncBlock(req[r])
    /\ frame_buffer # <<>>

\* what an iteration of the render loop waits for: streaming enabled (lines
\* 306-308), the buffer lock (line 256) and the event loop
CanEmit ==
    /\ is_streaming
    /\ buffer_lock = 0
    /\ \A r \in ReqIds : ~InSyncBlock(req[r])

RenderFrame ==
    /\ CanEmit
    /\ LET latest == get_latest_frame(frame_buffer) IN
       rendered' =
          IF latest = 0
          THEN [kind |-> "placeholder", frame |-> 0, zoom |-> zoom,
                box |-> FullFrame(FrameW, FrameH)]
          ELSE [kind |-> "frame", frame |-> latest, zoom |-> zoom,
                box |-> IF zoom.factor > 1
                        THEN apply_zoom(FrameW, FrameH, zoom)
                        ELSE FullFrame(FrameW, FrameH)]
    /\ UNCHANGED <<dec, zoom_cmd, shutdown, af, histVars>>
    /\ UNCHANGED <<camVars, stoVars, wsVars>>

LastPushed == IF pushed = <<>> THEN 0 ELSE pushed[Len(pushed)]

\* C21: while streaming is enabled the render loop never invokes a device
\* capture and never waits for a frame: each iteration emits the placeholder
\* when nothing is buffered and the latest buffered frame otherwise, so an
\* acquisition loop that is stalled or stopped never prevents it from emitting.
C21_RenderNeverWaits ==
    /\ [][rendered' # rendered =>
             /\ clock' = clock /\ picam' = picam /\ faults' = faults
             /\ thread' = thread /\ frame_buffer' = frame_buffer
             /\ rendered'.kind = IF pushed = <<>> THEN "placeholder" ELSE "frame"
             /\ rendered'.frame = LastPushed]_vars
    /\ []((is_streaming /\ buffer_lock = 0) => ENABLED RenderFrame)
    /\ [](buffer_lock = 1 => \E t \in Threads : t.pc = "evict")

\* the placeholder emitted while the acquisition thread sits in a capture that
\* has not returned, after one that raised
C21_Witness ==
    /\ rendered.kind = "placeholder"
    /\ pushed = <<>>
    /\ faults > 0
    /\ \E t \in Threads : t.pc = "capture"

\* C22: while a capture's image write is in progress on the worker pool, the
\* render loop is able to emit preview frames.
C22_RenderDuringWrite ==
    \A r \in ReqIds : req[r].pc = "write" => ENABLED RenderFrame

(***************************************************************************)
(* Claims about the zoom (SpecView)                                        *)
(***************************************************************************)
\* C19 (as claimed): a frame rendered with zoom factor f > 1 and center (x, y)
\* is cropped to a box of width floor(w / f) and height floor(h / f) whose
\* middle is within one pixel of (floor(x * w), floor(y * h)).
C19_CropCentered ==
    (rendered.kind = "frame" /\ rendered.zoom.factor > 1) =>
       LET b == rendered.box
           cx == (rendered.zoom.center[1] * FrameW) \div 10
           cy == (rendered.zoom.center[2] * FrameH) \div 10
           dx == b[1] + b[3] - 2 * cx
           dy == b[2] + b[4] - 2 * cy
       IN /\ b[3] - b[1] = FrameW \div rendered.zoom.factor
          /\ b[4] - b[2] = FrameH \div rendered.zoom.factor
          /\ dx \in -2..2
          /\ dy \in -2..2

\* C20: the zoom state is the one the last zoom command alone produces,
\* center (x, y) with factor 2 after set_zoom_point(x, y), center (0.5, 0.5) with
\* factor 1 after reset_zoom and before any command, whatever commands came
\* before; a frame rendered with factor 1 is the whole frame.
C20_LastZoomCommandWins ==
    /\ zoom_cmd.op = "set" => zoom = [factor |-> 2, center |-> <<zoom_cmd.x, zoom_cmd.y>>]
    /\ zoom_cmd.op \in {"reset", "none"} => zoom = [factor |-> 1, center |-> <<5, 5>>]
    /\ (rendered.kind = "frame" /\ rendered.zoom.factor = 1) =>
          rendered.box = <<0, 0, FrameW, FrameH>>

\* C20 witness: a frame is rendered uncropped after a reset that followed a
\* set_zoom_point
C20_Witness ==
    /\ zoom_cmd.op = "reset" /\ zoom_cmd.prev = "set"
    /\ zoom = [factor |-> 1, center |-> <<5, 5>>]
    /\ rendered.kind = "frame" /\ rendered.zoom = zoom
    /\ rendered.box = <<0, 0, FrameW, FrameH>>

(***************************************************************************)
(* decode_datamatrix and enhanced_decode_datamatrix                        *)
(***************************************************************************)
\* the not-found value
None == "None"
\* texts a DataMatrix symbol may carry
Payloads == {"A", "B"}

\* enhanced_decode_datamatrix lines 749-754: the threshold strategies, in order
strategies == <<"Otsu", "Adaptatif", "Adaptatif Mean", "Seuil fixe 128">>

\* the rotations tried last first
angles_reversed == <<270, 180, 90, 0>>

\* lines 760 and 908: for angle in [0, 90, 180, 270]
angles == <<0, 90, 180, 270>>

\* what cv2.imread gives: an image, None, or an exception
ReadOutcomes == {"image", "none", "raise"}
\* what a step of image processing does
StepOutcomes == {"ok", "raise"}
\* what extract_white_label_enhanced returns (it catches its own exceptions),
\* "raise" standing for cv2.cvtColor or the debug imwrite around it failing
LabelOutcomes == {"label", "none", "raise"}
\* one attempt: rotation or debug write raises before the decoder is called
\* ("io_raise"); the decoder finds nothing, raises, finds a symbol whose bytes
\* are not UTF-8 ("garbled": data.decode raises inside the same try), or finds
\* a symbol
AttemptOutcomes == {"io_raise", "none", "decoder_raise", "garbled", "payload"}

\* no decode_datamatrix call made yet
\* ---- file names ----
\* a name is a sequence of tokens; ".jpg" and "_debug" occur in a name only as
\* whole tokens, so a substring test is a test on tokens
NoPath == <<>>
\* {timestamp}.jpg and {timestamp}_{manual_of}.jpg (lines 415-420), and an image
\* that was not written by the capture
ImagePaths == {<<"t", ".jpg">>, <<"t", "_of", ".jpg">>, <<"t", ".png">>}

\* str.replace(old, new): every occurrence of token old becomes the tokens new
RECURSIVE str_replace(_, _, _)
str_replace(name, old, new) ==
    IF name = <<>> THEN <<>>
    ELSE (IF Head(name) = old THEN new ELSE <<Head(name)>>)
            \o str_replace(Tail(name), old, new)

\* line 766: image_path.replace('.jpg', f'_debug_{threshold_name}_{angle}.jpg')
debug_path(image_path, threshold_name, angle) ==
    str_replace(image_path, ".jpg", <<"_debug", "_", threshold_name, "_", ToString(angle), ".jpg">>)

\* line 904: image_path.replace('.jpg', '_label_debug.jpg')
label_debug_path(image_path) ==
    str_replace(image_path, ".jpg", <<"_label", "_debug", ".jpg">>)

\* glob("*.jpg") (line 939)
glob_jpg(name) == name # <<>> /\ name[Len(name)] = ".jpg"

\* "_debug" in f.name (line 940)
has_debug_marker(name) == \E i \in 1..Len(name) : name[i] = "_debug"

\* get_latest_images (lines 936-945): the files the listing draws from; the
\* result is the count newest of them
latest_images(files) == {f \in files : glob_jpg(f) /\ ~has_debug_marker(f)}

dec0 == [pc |-> "idle", ti |-> 0, ai |-> 0, attempts |-> <<>>, fb_attempts |-> <<>>,
         last |-> "none", hit_at |-> 0, hit_payload |-> None, decoder_raised |-> FALSE,
         enh_result |-> "pending", result |-> "pending",
         image_path |-> NoPath, artifacts |-> {},
         label |-> "pending", fb_hit_at |-> 0]

\* the value a raised exception turns into: the propagating exception
decode_on_exception_raised == "raised"

\* decode_datamatrix lines 931-933 and enhanced_decode_datamatrix 781-783:
\* except Exception: log, return None
decode_on_exception == None

\* decode_datamatrix returns value
DecodeReturns(d, value) == [d EXCEPT !.result = value, !.pc = "returned"]

\* enhanced_decode_datamatrix returns value to decode_datamatrix (lines
\* 891-893): a truthy result is returned at once, otherwise the label fallback
EnhancedReturns(d, value) ==
    IF value # None
    THEN [d EXCEPT !.enh_result = value, !.result = value, !.pc = "returned"]
    ELSE [d EXCEPT !.enh_result = None, !.pc = "fb_label"]

\* the direct stage after an attempt that did not return: next rotation, next
\* strategy, or the end of both loops (return None, line 779)
NextDirect(d) ==
    IF d.ai < Len(angles) THEN [d EXCEPT !.ai = d.ai + 1]
    ELSE IF d.ti < Len(strategies) THEN [d EXCEPT !.ti = d.ti + 1, !.ai = 0,
                                                  !.pc = "enh_threshold"]
    ELSE EnhancedReturns(d, None)

\* mutant: the fallback gives up after its first attempt
NextFallback_once(d) == DecodeReturns(d, None)

\* the fallback stage after an attempt that did not return (lines 908, 928-929)
NextFallback(d) ==
    IF d.ai < Len(angles) THEN [d EXCEPT !.ai = d.ai + 1]
    ELSE DecodeReturns(d, None)

\* decode_datamatrix(image_path) is called
DecodeBegin ==
    /\ dec.pc \in {"idle", "returned"}
    /\ \E image_path \in ImagePaths :
          dec' = [dec0 EXCEPT !.pc = "read", !.image_path = image_path]
    /\ UNCHANGED <<rendered, zoom_cmd, shutdown, af, histVars>>
    /\ UNCHANGED <<camVars, stoVars, wsVars>>

\* decode_datamatrix lines 885-888: cv2.imread
DecodeRead ==
    /\ dec.pc = "read"
    /\ \E o \in ReadOutcomes :
          dec' = CASE o = "image" -> [dec EXCEPT !.pc = "enh_read", !.last = o]
                   [] o = "none" -> DecodeReturns([dec EXCEPT !.last = o], None)
                   [] o = "raise" -> DecodeReturns([dec EXCEPT !.last = o],
                                                   decode_on_exception)
    /\ UNCHANGED <<rendered, zoom_cmd, shutdown, af, histVars>>
    /\ UNCHANGED <<camVars, stoVars, wsVars>>

\* enhanced_decode_datamatrix lines 741-743: cv2.imread again
EnhancedRead ==
    /\ dec.pc = "enh_read"
    /\ \E o \in ReadOutcomes :
          dec' = CASE o = "image" -> [dec EXCEPT !.pc = "enh_prep", !.last = o]
                   [] o = "none" -> EnhancedReturns([dec EXCEPT !.last = o], None)
                   [] o = "raise" -> EnhancedReturns([dec EXCEPT !.last = o],
                                                     decode_on_exception)
    /\ UNCHANGED <<rendered, zoom_cmd, shutdown, af, histVars>>
    /\ UNCHANGED <<camVars, stoVars, wsVars>>

\* line 746: preprocess_for_datamatrix
EnhancedPreprocess ==
    /\ dec.pc = "enh_prep"
    /\ \E o \in StepOutcomes :
          dec' = IF o = "ok"
                 THEN [dec EXCEPT !.pc = "enh_threshold", !.ti = 1, !.ai = 0, !.last = o]
                 ELSE EnhancedReturns([dec EXCEPT !.last = o], decode_on_exception)
    /\ UNCHANGED <<rendered, zoom_cmd, shutdown, af, histVars>>
    /\ UNCHANGED <<camVars, stoVars, wsVars>>

\* lines 757-758: binary = threshold_func(processed), outside the inner try
EnhancedThreshold ==
    /\ dec.pc = "enh_threshold"
    /\ \E o \in StepOutcomes :
          dec' = IF o = "ok"
                 THEN [dec EXCEPT !.pc = "enh_attempt", !.ai = 1, !.last = o]
                 ELSE EnhancedReturns([dec EXCEPT !.last = o], decode_on_exception)
    /\ UNCHANGED <<rendered, zoom_cmd, shutdown, af, histVars>>
    /\ UNCHANGED <<camVars, stoVars, wsVars>>

\* lines 760-777: rotate, write the debug image, call the decoder
EnhancedAttempt ==
    /\ dec.pc = "enh_attempt"
    /\ \E o \in AttemptOutcomes, p \in Payloads :
          LET tried == [dec EXCEPT !.attempts = Append(@, <<strategies[dec.ti],
                                                           angles[dec.ai]>>),
                                   !.last = o,
                                   !.decoder_raised = @ \/ o = "decoder_raise",
                                   !.artifacts = @ \cup {debug_path(dec.image_path,
                                                     strategies[dec.ti], angles[dec.ai])}]
          IN dec' = CASE o = "io_raise" ->
                           EnhancedReturns([dec EXCEPT !.last = o], decode_on_exception)
                      [] o = "payload" ->
                           EnhancedReturns([tried EXCEPT !.hit_at = Len(tried.attempts),
                                                         !.hit_payload = p], p)
                      [] OTHER -> NextDirect(tried)
    /\ UNCHANGED <<rendered, zoom_cmd, shutdown, af, histVars>>
    /\ UNCHANGED <<camVars, stoVars, wsVars>>

\* decode_datamatrix lines 896-905: grayscale, extract_white_label_enhanced,
\* the debug write of the label
FallbackLabel ==
    /\ dec.pc = "fb_label"
    /\ \E o \in LabelOutcomes :
          dec' = CASE o = "label" ->
                        [dec EXCEPT !.pc = "fb_attempt", !.ai = 1, !.last = o,
                                    !.label = o,
                                    !.artifacts = @ \cup {label_debug_path(dec.image_path)}]
                   [] o = "none" -> DecodeReturns([dec EXCEPT !.last = o, !.label = o], None)
                   [] o = "raise" -> DecodeReturns([dec EXCEPT !.last = o, !.label = o],
                                                   decode_on_exception)
    /\ UNCHANGED <<rendered, zoom_cmd, shutdown, af, histVars>>
    /\ UNCHANGED <<camVars, stoVars, wsVars>>

\* lines 908-926: rotate the label, threshold it, call the decoder
FallbackAttempt ==
    /\ dec.pc = "fb_attempt"
    /\ \E o \in AttemptOutcomes, p \in Payloads :
          LET tried == [dec EXCEPT !.fb_attempts = Append(@, angles[dec.ai]),
                                   !.last = o,
                                   !.decoder_raised = @ \/ o = "decoder_raise"]
          IN dec' = CASE o = "io_raise" ->
                           DecodeReturns([dec EXCEPT !.last = o], decode_on_exception)
                      [] o = "payload" ->
                           DecodeReturns([tried EXCEPT !.fb_hit_at = Len(tried.fb_attempts)], p)
                      [] OTHER -> NextFallback(tried)
    /\ UNCHANGED <<rendered, zoom_cmd, shutdown, af, histVars>>
    /\ UNCHANGED <<camVars, stoVars, wsVars>>

(***************************************************************************)
(* Claims about the decode pipeline (SpecDec)                              *)
(***************************************************************************)
\* the (strategy, rotation) pairs of the direct stage in the claimed order
DirectOrder ==
    << <<"Otsu", 0>>, <<"Otsu", 90>>, <<"Otsu", 180>>, <<"Otsu", 270>>,
       <<"Adaptatif", 0>>, <<"Adaptatif", 90>>, <<"Adaptatif", 180>>,
       <<"Adaptatif", 270>>,
       <<"Adaptatif Mean", 0>>, <<"Adaptatif Mean", 90>>, <<"Adaptatif Mean", 180>>,
       <<"Adaptatif Mean", 270>>,
       <<"Seuil fixe 128", 0>>, <<"Seuil fixe 128", 90>>, <<"Seuil fixe 128", 180>>,
       <<"Seuil fixe 128", 270>> >>

C12_NeverRaises ==
    /\ dec.result \in Payloads \cup {None, "pending"}
    /\ dec.enh_result \in Payloads \cup {None, "pending"}
    /\ dec.pc = "returned" => dec.result \in Payloads \cup {None}
    /\ (dec.last = "decoder_raise" /\ dec.fb_attempts = <<>>) =>
          IF Len(dec.attempts) < 16
          THEN dec.pc \in {"enh_attempt", "enh_threshold"}
          ELSE dec.pc = "fb_label" /\ dec.enh_result = None
    /\ (dec.last = "decoder_raise" /\ dec.fb_attempts # <<>>) =>
          IF Len(dec.fb_attempts) < 4
          THEN dec.pc = "fb_attempt"
          ELSE dec.pc = "returned" /\ dec.result = None
    /\ (dec.pc = "returned" /\ dec.last \in {"raise", "io_raise"}) => dec.result = None

\* C12 witness: all 16 direct attempts and all 4 fallback attempts were made,
\* a decoder exception among them, and the call returned None
C12_Witness ==
    /\ dec.pc = "returned"
    /\ dec.result = None
    /\ Len(dec.attempts) = 16
    /\ dec.fb_attempts = angles
    /\ dec.decoder_raised
    /\ dec.last = "decoder_raise"

(***************************************************************************)
(* stop() (main.py:694-712)                                                *)
(***************************************************************************)
shutdown0 == [pc |-> "idle", joined |-> "none", executor |-> "running",
              stop |-> "none", close |-> "none"]

\* lines 696-697: streaming off, the stop flag set; line 699: is there a
\* thread to wait for
ManagerStop ==
    /\ shutdown.pc = "idle"
    /\ \A r \in ReqIds : req[r].pc \in {"idle", "done"}
    /\ is_streaming' = FALSE
    /\ stop_capture' = TRUE
    /\ shutdown' = [shutdown EXCEPT !.pc = IF is_alive THEN "join" ELSE "teardown"]
    /\ UNCHANGED <<app_quality_mode, quality_config, picam, capture_thread, thread,
                   frame_buffer, buffer_lock, clock, pushed, req, clients, faults>>
    /\ UNCHANGED <<dec, rendered, zoom_cmd, af, histVars>>
    /\ UNCHANGED <<stoVars, wsVars>>

\* line 700: join(timeout=2.0) returns when the thread has ended, or after
\* two seconds with the thread still running
StopJoin ==
    /\ shutdown.pc = "join"
    /\ shutdown' = [shutdown EXCEPT !.pc = "teardown",
                                    !.joined = IF is_alive THEN "timeout" ELSE "ended"]
    /\ UNCHANGED <<dec, rendered, zoom_cmd, af, histVars>>
    /\ UNCHANGED <<camVars, stoVars, wsVars>>

\* lines 705-710: stop() and close() share one try block, so close() is not
\* reached when stop() raises
teardown_after_stop_raised == "skipped"

\* lines 702-710: the worker pool is shut down without waiting; with a device,
\* picam2.stop() then picam2.close(), any exception swallowed
StopTeardown ==
    /\ shutdown.pc = "teardown"
    /\ \/ /\ ~picam.present
          /\ shutdown' = [shutdown EXCEPT !.pc = "done", !.executor = "shutdown"]
          /\ UNCHANGED <<picam, faults>>
       \/ /\ picam.present
          /\ \E c \in {"ok", "raise"} :
                /\ c = "raise" => faults < MaxFaults
                /\ faults' = IF c = "raise" THEN faults + 1 ELSE faults
                /\ shutdown' = [shutdown EXCEPT !.pc = "done", !.executor = "shutdown",
                                                !.stop = "ok", !.close = c]
          /\ picam' = [picam EXCEPT !.started = FALSE, !.config = "none"]
       \/ /\ picam.present
          /\ faults < MaxFaults
          /\ faults' = faults + 1
          /\ shutdown' = [shutdown EXCEPT !.pc = "done", !.executor = "shutdown",
                                          !.stop = "raise",
                                          !.close = teardown_after_stop_raised]
          /\ UNCHANGED picam
    /\ UNCHANGED <<app_quality_mode, quality_config, is_streaming, stop_capture,
                   capture_thread, thread, frame_buffer, buffer_lock, clock, pushed,
                   req, clients>>
    /\ UNCHANGED <<dec, rendered, zoom_cmd, af, histVars>>
    /\ UNCHANGED <<stoVars, wsVars>>

\* what holds of stop(): it is never blocked, the flag is set and streaming is
\* off from its first line on, the teardown is reached whether the join ended
\* or timed out, the device's stop() is always attempted, and a thread at its
\* loop test leaves the loop
StopReachesTeardown ==
    /\ shutdown.pc = "join" => ENABLED StopJoin
    /\ shutdown.pc = "teardown" => ENABLED StopTeardown
    /\ shutdown.pc # "idle" => stop_capture /\ ~is_streaming
    /\ shutdown.pc = "done" =>
          /\ shutdown.executor = "shutdown"
          /\ picam.present => shutdown.stop \in {"ok", "raise"}
    /\ shutdown.pc # "idle" =>
          \A t \in Threads : t.pc = "loop" =>
             /\ ENABLED AcqLoopTest(t)
             /\ ~ENABLED (AcqLoopTest(t) /\ BagCardinality(thread') >= BagCardinality(thread))

\* C28: stop() always terminates and always attempts the device teardown (stop
\* and close): it sets the stop flag, waits at most the join timeout for the
\* acquisition thread and goes on to the teardown whether or not the thread has
\* finished; a thread that observes the flag leaves its loop.
C28_StopTearsDown ==
    /\ StopReachesTeardown
    /\ (shutdown.pc = "done" /\ picam.present) =>
          /\ shutdown.stop \in {"ok", "raise"}
          /\ shutdown.close \in {"ok", "raise"}

(***************************************************************************)
(* The autofocus routines (main.py:260-297, 640-680)                       *)
(***************************************************************************)
\* times are in milliseconds
initial_timeout == 8000     \* line 274: < 8
initial_poll == 100         \* line 281: asyncio.sleep(0.1)
manual_timeout == 5000      \* line 654: < 5
manual_poll == 50           \* line 661: asyncio.sleep(0.05)
af_timeout(routine) == IF routine = "initial" THEN initial_timeout ELSE manual_timeout
af_poll(routine) == IF routine = "initial" THEN initial_poll ELSE manual_poll

\* AfState as the metadata reports it: 0 idle, 1 scanning, 2 focused, 3 failed
AfStates == {0, 1, 2, 3}

af0 == [routine |-> "none", pc |-> "idle", elapsed |-> 0, polls |-> 0, state |-> 0,
        lens |-> 0, cause |-> "none", mode |-> "none", position |-> 0,
        result |-> "none"]

\* mutant: only the focused state ends the polling
af_terminal_focused_only(state) == state = 2

\* lines 277-280, 657-660: if state == 2: break / elif state == 3: break
af_terminal(state) == state = 2 \/ state = 3

\* lines 283, 663: metadata.get("LensPosition") or camera_controls.get(
\* "LensPosition"), then its first element: a missing or zero position gives
\* the lower end of the control's range, which is 0
latched_position(lens) == IF lens # 0 THEN lens ELSE 0

\* the routine is entered: set_controls(continuous), start_time
AfBegin(routine) ==
    /\ af.pc \in {"idle", "done"}
    /\ routine = "initial" => af.routine = "none"
    /\ routine = "manual" => af.routine # "none"
    /\ \/ /\ picam.present
          /\ af' = [af0 EXCEPT !.routine = routine, !.pc = "test"]
          /\ UNCHANGED faults
       \/ /\ picam.present => faults < MaxFaults
          /\ faults' = IF picam.present THEN faults + 1 ELSE faults
          /\ af' = [af0 EXCEPT !.routine = routine, !.pc = "done", !.result = "raised"]
    /\ UNCHANGED <<app_quality_mode, quality_config, picam, is_streaming, stop_capture,
                   capture_thread, thread, frame_buffer, buffer_lock, clock, pushed,
                   req, clients>>
    /\ UNCHANGED <<dec, rendered, zoom_cmd, shutdown, histVars>>
    /\ UNCHANGED <<stoVars, wsVars>>

\* while time.time() - start_time < timeout (lines 274, 654)
AfLoopTest ==
    /\ af.pc = "test"
    /\ af' = IF af.elapsed < af_timeout(af.routine)
             THEN [af EXCEPT !.pc = "poll"]
             ELSE [af EXCEPT !.pc = "latch", !.cause = "timeout"]
    /\ UNCHANGED <<dec, rendered, zoom_cmd, shutdown, histVars>>
    /\ UNCHANGED <<camVars, stoVars, wsVars>>

\* one iteration: capture_metadata, the state test, the sleep
AfPoll ==
    /\ af.pc = "poll"
    /\ \/ /\ \E state \in AfStates, lens \in LensPositions, stall \in {0, MaxStall} :
                af' = IF af_terminal(state)
                      THEN [af EXCEPT !.pc = "latch", !.polls = @ + 1, !.state = state,
                                      !.lens = lens, !.elapsed = @ + stall,
                                      !.cause = IF state = 2 THEN "focused" ELSE "failed"]
                      ELSE [af EXCEPT !.pc = "test", !.polls = @ + 1, !.state = state,
                                      !.lens = lens,
                                      !.elapsed = @ + stall + af_poll(af.routine)]
          /\ UNCHANGED faults
       \/ /\ faults < MaxFaults
          /\ faults' = faults + 1
          /\ af' = [af EXCEPT !.pc = "done", !.result = "raised"]
    /\ UNCHANGED <<app_quality_mode, quality_config, picam, is_streaming, stop_capture,
                   capture_thread, thread, frame_buffer, buffer_lock, clock, pushed,
                   req, clients>>
    /\ UNCHANGED <<dec, rendered, zoom_cmd, shutdown, histVars>>
    /\ UNCHANGED <<stoVars, wsVars>>

\* lines 283-292, 663-675: the position is kept in _current_focus, then the
\* device is set to manual focus at it; a set_controls that raises is swallowed
AfLatch ==
    /\ af.pc = "latch"
    /\ current_focus' = latched_position(af.lens)
    /\ \/ /\ af' = [af EXCEPT !.pc = "done", !.mode = "manual",
                              !.position = latched_position(af.lens), !.result = "ok"]
          /\ UNCHANGED faults
       \/ /\ faults < MaxFaults
          /\ faults' = faults + 1
          /\ af' = [af EXCEPT !.pc = "done", !.result = "raised"]
    /\ UNCHANGED <<app_quality_mode, quality_config, picam, is_streaming, stop_capture,
                   capture_thread, thread, frame_buffer, buffer_lock, clock, pushed,
                   req, clients>>
    /\ UNCHANGED <<dec, rendered, zoom_cmd, shutdown, histVars>>
    /\ UNCHANGED <<stoVars>>
    /\ UNCHANGED <<current_websocket, ws, peer, sent, capture, zoom>>

\* C29: both autofocus routines terminate: the polling ends at the first
\* focused (2) or failed (3) state observed, or when the timeout has elapsed
\* (8 s initial, 5 s manual); in all three cases the last lens position
\* observed is latched and the focus is switched to manual at that position;
\* a timeout is not an error.
C29_AutofocusTerminates ==
    /\ af.pc \in {"test", "poll", "latch"} => ENABLED (AfLoopTest \/ AfPoll \/ AfLatch)
    /\ af.pc \in {"test", "poll"} => af.polls * af_poll(af.routine) <= af.elapsed
    /\ af.routine # "none" => af.polls <= af_timeout(af.routine) \div af_poll(af.routine)
    /\ af.pc = "poll" => af.elapsed < af_timeout(af.routine)
    /\ af.pc \in {"test", "poll"} => ~(af.state = 2 \/ af.state = 3)
    /\ af.pc = "latch" =>
          /\ af.polls >= 1
          /\ \/ af.cause = "focused" /\ af.state = 2
             \/ af.cause = "failed" /\ af.state = 3
             \/ /\ af.cause = "timeout" /\ af.elapsed >= af_timeout(af.routine)
                /\ af.state \notin {2, 3}
    /\ (af.pc = "done" /\ af.cause # "none") =>
          /\ current_focus = af.lens
          /\ af.result = "ok" => af.mode = "manual" /\ af.position = af.lens
          /\ af.result \in {"ok", "raised"}

\* the manual routine, ended by its timeout after five seconds of polling
\* without a stall, the position seen last latched
C29_Witness ==
    /\ af.pc = "done" /\ af.routine = "manual"
    /\ af.cause = "timeout" /\ af.result = "ok"
    /\ af.polls = manual_timeout \div manual_poll
    /\ af.lens = 2 /\ current_focus = 2 /\ af.mode = "manual"

-----------------------------------------------------------------------------
\* The lens position of the stored still configuration.  still.lens is the
\* LensPosition control inside self.still_config, written only by
\* _create_enhanced_still_config (lines 184, 202) from self._current_focus
\* (0 is None, the value of __init__ line 113).

NoApplied == [kind |-> "none", lens |-> 0, latched |-> 0]

still0 == [ready |-> FALSE, lens |-> 0, latched |-> 0, applied |-> NoApplied]

\* _create_enhanced_still_config (lines 171-211): both branches store
\* "LensPosition": self._current_focus
create_enhanced_still_config(st, focus) == [st EXCEPT !.lens = focus]

\* initialize (lines 125-169): the still configuration is created (150), then
\* _perform_initial_autofocus latches a position (283-292) or fails, its
\* exception swallowed (296-297); the still configuration is not created again
InitializeLens ==
    /\ ~still.ready
    /\ LET created == create_enhanced_still_config(still, current_focus) IN
       \/ \E f \in LensPositions :
             /\ current_focus' = latched_position(f)
             /\ still' = [created EXCEPT !.ready = TRUE, !.latched = latched_position(f)]
       \/ /\ UNCHANGED current_focus
          /\ still' = [created EXCEPT !.ready = TRUE]
    /\ UNCHANGED <<current_websocket, ws, peer, sent, capture, zoom>>
    /\ UNCHANGED <<dec, rendered, zoom_cmd, shutdown, af, seg, focus_run, names>>
    /\ UNCHANGED <<camVars, stoVars>>

\* focus_auto (lines 640-680): the position is latched (663-672) and the still
\* configuration created again (675); a routine that fails before the latch
\* changes nothing, its exception swallowed (679-680)
FocusAutoLens ==
    /\ still.ready
    /\ \E f \in LensPositions :
          /\ current_focus' = latched_position(f)
          /\ still' = [create_enhanced_still_config(still, latched_position(f))
                          EXCEPT !.latched = latched_position(f)]
    /\ UNCHANGED <<current_websocket, ws, peer, sent, capture, zoom>>
    /\ UNCHANGED <<dec, rendered, zoom_cmd, shutdown, af, seg, focus_run, names>>
    /\ UNCHANGED <<camVars, stoVars>>

\* set_quality_mode with a key of QUALITY_CONFIGS (lines 213-218): the still
\* configuration is created again
SetQualityModeLens ==
    /\ still.ready
    /\ \E m \in QualityModes :
          /\ app_quality_mode' = m
          /\ set_quality_mode(m)
    /\ still' = create_enhanced_still_config(still, current_focus)
    /\ UNCHANGED <<picam, is_streaming, stop_capture, capture_thread, thread,
                   frame_buffer, buffer_lock, clock, pushed, req, clients, faults>>
    /\ UNCHANGED wsVars
    /\ UNCHANGED <<dec, rendered, zoom_cmd, shutdown, af, seg, focus_run, names>>
    /\ UNCHANGED stoVars

\* the configuration a capture applies: _capture_standard (460) and
\* _capture_multiple_shots (521) configure self.still_config,
\* _capture_bracketed_photos builds its own from self._current_focus (586-593)
CaptureLens ==
    /\ still.ready
    /\ still' = [still EXCEPT !.applied =
                    [kind |-> profile_of(app_quality_mode),
                     lens |-> IF profile_of(app_quality_mode) = "bracketed"
                              THEN current_focus ELSE still.lens,
                     latched |-> still.latched]]
    /\ UNCHANGED <<dec, rendered, zoom_cmd, shutdown, af, seg, focus_run, names>>
    /\ UNCHANGED <<camVars, stoVars, wsVars>>

\* C36 (as claimed): whenever a standard or multi-shot capture applies the
\* stored still configuration, its lens position equals the lens position most
\* recently latched by an autofocus routine, for every order of
\* initialization, focus commands and quality-mode changes.
C36_StillLensIsLatched ==
    still.applied.kind \in {"standard", "multi"} =>
        still.applied.lens = still.applied.latched

-----------------------------------------------------------------------------
\* The destination path of a capture (capture_photo_enhanced lines 414-422).
\* Request times are in milliseconds; a path is the sequence of its parts.

MaxRequests == 2

\* the time between two requests: none (two requests in flight in the same
\* millisecond), half a second, a second
RequestGapsMs == {0, 500, 1000}

\* manual_of: None, the empty string of the settings' default, two identifiers
ManualOfs == {None, "", "OF1", "OF2"}

\* line 415: datetime.now().strftime("%Y%m%d_%H%M%S"), the time to the second
timestamp(t_ms) == t_ms \div 1000

\* lines 417-422: "if manual_of:" is false for None and for ""
capture_filepath(t_ms, manual_of) ==
    IF manual_of # None /\ manual_of # ""
    THEN <<"IMAGES_DIR", timestamp(t_ms), "_", manual_of, ".jpg">>
    ELSE <<"IMAGES_DIR", timestamp(t_ms), ".jpg">>

\* a capture request at or after the previous one: the path its capture
\* routine writes to (lines 473, 546, 619) and returns (504, 565, 638)
CaptureRequest ==
    /\ Len(names) < MaxRequests
    /\ \E gap \in RequestGapsMs, m \in ManualOfs :
          LET t == IF names = <<>> THEN gap ELSE names[Len(names)].t + gap IN
          names' = Append(names, [t |-> t, manual_of |-> m,
                                  path |-> capture_filepath(t, m)])
    /\ UNCHANGED <<dec, rendered, zoom_cmd, shutdown, af, seg, focus_run, still>>
    /\ UNCHANGED <<camVars, stoVars, wsVars>>

\* C39 (as claimed): two distinct capture requests never produce the same
\* destination path, for every pair of request times and operator identifiers.
C39_DistinctPaths ==
    \A i, j \in DOMAIN names : i # j => names[i].path # names[j].path

-----------------------------------------------------------------------------
\* extract_white_label_enhanced (main.py:786-861).  A contour is what the
\* loop reads of it: its area, the vertex count of its polygon approximation
\* and its bounding rectangle.  The pixels of the crop are the percentage of
\* them brighter than 200.

MaxContours == 2

\* gray_image.shape of the images drawn
ImageH == 160
ImageW == 200

NoRegion == [x |-> -1, y |-> -1, w |-> 0, h |-> 0]

Boxes ==
    { [x |-> 80, y |-> 40, w |-> 120, h |-> 120],
      [x |-> 10, y |-> 5, w |-> 60, h |-> 40],
      [x |-> 1, y |-> 1, w |-> 40, h |-> 60],
      [x |-> 20, y |-> 20, w |-> 100, h |-> 20],
      [x |-> 20, y |-> 20, w |-> 101, h |-> 20] }

Areas == {1499, 1500, 12800, 12801}
Approxes == {3, 4, 10, 11}
WhitePercents == {24, 25}

\* cv2.contourArea never exceeds the area of the bounding rectangle
Contours ==
    { c \in [box : Boxes, area : Areas, approx : Approxes] :
          c.area <= c.box.w * c.box.h }

Abs(a) == IF a >= 0 THEN a ELSE -a

\* line 811: area < 1500 or area > H * W * 0.4
area_ok(c, H, W) == ~(c.area < 1500 \/ 5 * c.area > 2 * H * W)

\* line 819
approx_ok(c) == ~(c.approx < 4 \/ c.approx > 10)

\* lines 823-826: max(w, h) / min(w, h) > 5
aspect_ok(c) == ~(Max(c.box.w, c.box.h) > 5 * Min(c.box.w, c.box.h))

passes(c, H, W) == area_ok(c, H, W) /\ approx_ok(c) /\ aspect_ok(c)

\* lines 830-832: score = area * (2 - |approx / 4 - 1|) * area / (w * h),
\* kept as the fraction 4 * score = ScoreNum / ScoreDen
ScoreNum(c) == c.area * (8 - Abs(c.approx - 4)) * c.area
ScoreDen(c) == c.box.w * c.box.h

\* mutant: a later contour of equal score replaces the selected one
score_greater_or_equal(c, d) ==
    LET qc == ScoreNum(c) \div ScoreDen(c)
        qd == ScoreNum(d) \div ScoreDen(d)
        rc == ScoreNum(c) % ScoreDen(c)
        rd == ScoreNum(d) % ScoreDen(d)
    IN  qc > qd \/ (qc = qd /\ rc * ScoreDen(d) >= rd * ScoreDen(c))

\* line 834: score(c) > score(d), the fractions compared by quotient and remainder
score_greater(c, d) ==
    LET qc == ScoreNum(c) \div ScoreDen(c)
        qd == ScoreNum(d) \div ScoreDen(d)
        rc == ScoreNum(c) % ScoreDen(c)
        rd == ScoreNum(d) % ScoreDen(d)
    IN  qc > qd \/ (qc = qd /\ rc * ScoreDen(d) > rd * ScoreDen(c))

\* lines 804-836: the loop over the contours from position i on, best the
\* index of best_contour (0 is None, max_score is then 0)
RECURSIVE best_contour(_, _, _, _, _)
best_contour(cs, i, best, H, W) ==
    IF i > Len(cs) THEN best
    ELSE IF ~passes(cs[i], H, W) THEN best_contour(cs, i + 1, best, H, W)
    ELSE IF best = 0
         THEN best_contour(cs, i + 1, IF ScoreNum(cs[i]) > 0 THEN i ELSE 0, H, W)
         ELSE best_contour(cs, i + 1,
                           IF score_greater(cs[i], cs[best]) THEN i ELSE best, H, W)

\* mutant: the margin is added without clamping to the image
crop_rect_unclamped(b, H, W) ==
    LET margin == Min(15, Min(b.w \div 8, b.h \div 8))
    IN  [x |-> b.x - margin, y |-> b.y - margin,
         w |-> b.w + 2 * margin, h |-> b.h + 2 * margin]

\* lines 842-848
crop_rect(b, H, W) ==
    LET margin == Min(15, Min(b.w \div 8, b.h \div 8))
        x == Max(0, b.x - margin)
        y == Max(0, b.y - margin)
    IN  [x |-> x, y |-> y,
         w |-> Min(W - x, b.w + 2 * margin),
         h |-> Min(H - y, b.h + 2 * margin)]

\* lines 852-855: white_ratio < 0.25
white_ok(percent) == ~(percent < 25)

\* lines 800-857
extract_white_label_enhanced(cs, H, W, percent) ==
    LET best == best_contour(cs, 1, 0, H, W)
    IN  IF cs = <<>> \/ best = 0 THEN [best |-> best, region |-> NoRegion]
        ELSE IF ~white_ok(percent) THEN [best |-> best, region |-> NoRegion]
        ELSE [best |-> best, region |-> crop_rect(cs[best].box, H, W)]

seg0 ==
    [pc |-> "idle", contours |-> <<>>, box |-> NoRegion, H |-> ImageH, W |-> ImageW,
     white |-> 0, best |-> 0, region |-> NoRegion]

SeqsUpTo(S, n) == UNION { [1..k -> S] : k \in 0..n }

\* the calls of extract_white_label_enhanced drawn
LabelInputs ==
    { [seg0 EXCEPT !.pc = "called", !.contours = cs, !.white = p] :
          cs \in SeqsUpTo(Contours, MaxContours), p \in WhitePercents }

ExtractWhiteLabel ==
    /\ seg.pc = "called"
    /\ LET r == extract_white_label_enhanced(seg.contours, seg.H, seg.W, seg.white)
       IN  seg' = [seg EXCEPT !.pc = "returned", !.best = r.best, !.region = r.region]
    /\ UNCHANGED <<dec, rendered, zoom_cmd, shutdown, af, focus_run, still, names>>
    /\ UNCHANGED <<camVars, stoVars, wsVars>>

\* the bounding rectangles inside the image drawn for the crop alone
Offsets == {0, 1, 2, 14, 15, 16, 40}
Extents == {1, 7, 8, 16, 120, 121, 160, 180}
CropShapes == {<<160, 200>>, <<48, 64>>}

CropInputs ==
    { [seg0 EXCEPT !.pc = "selected", !.H = s[1], !.W = s[2],
                   !.box = [x |-> x, y |-> y, w |-> w, h |-> h]] :
          s \in CropShapes, x \in Offsets, y \in Offsets, w \in Extents, h \in Extents }

BoxInside(b, H, W) == b.x >= 0 /\ b.y >= 0 /\ b.x + b.w <= W /\ b.y + b.h <= H

\* lines 842-850 on a selected bounding rectangle
ExtractCrop ==
    /\ seg.pc = "selected"
    /\ seg' = [seg EXCEPT !.pc = "cropped", !.region = crop_rect(seg.box, seg.H, seg.W)]
    /\ UNCHANGED <<dec, rendered, zoom_cmd, shutdown, af, focus_run, still, names>>
    /\ UNCHANGED <<camVars, stoVars, wsVars>>

\* the order of the scores of two contours: -1, 0 or 1
ScoreOrder(c, d) ==
    LET qc == ScoreNum(c) \div ScoreDen(c)
        qd == ScoreNum(d) \div ScoreDen(d)
        lhs == (ScoreNum(c) % ScoreDen(c)) * ScoreDen(d)
        rhs == (ScoreNum(d) % ScoreDen(d)) * ScoreDen(c)
    IN  IF qc # qd THEN (IF qc < qd THEN -1 ELSE 1)
        ELSE IF lhs < rhs THEN -1 ELSE IF lhs = rhs THEN 0 ELSE 1

\* the positions of the contours that pass the three filters
Passing == { i \in 1..Len(seg.contours) : passes(seg.contours[i], seg.H, seg.W) }

\* C32: the segmentation selects, among the contours that pass the area, the
\* vertex-count and the aspect-ratio filter, one of maximum score, the first
\* encountered on ties; it returns no region exactly when no contour passes
\* the filters or the crop of the selected one fails the whiteness check.
C32_SelectsMaxScore ==
    seg.pc = "returned" =>
        /\ seg.region = NoRegion <=> (Passing = {} \/ seg.white < 25)
        /\ Passing = {} => seg.best = 0
        /\ Passing # {} =>
              /\ seg.best \in Passing
              /\ \A j \in Passing :
                    /\ ScoreOrder(seg.contours[j], seg.contours[seg.best]) <= 0
                    /\ j < seg.best =>
                          ScoreOrder(seg.contours[j], seg.contours[seg.best]) < 0
        /\ seg.region # NoRegion =>
              /\ seg.region.x <= seg.contours[seg.best].box.x
              /\ seg.region.y <= seg.contours[seg.best].box.y
              /\ seg.region.w >= seg.contours[seg.best].box.w
              /\ seg.region.h >= seg.contours[seg.best].box.h

\* two different contours pass the filters with the same score: the first is
\* selected and its crop returned
C32_Witness ==
    /\ seg.pc = "returned"
    /\ Passing = {1, 2}
    /\ seg.contours[1] # seg.contours[2]
    /\ ScoreOrder(seg.contours[1], seg.contours[2]) = 0
    /\ seg.best = 1
    /\ seg.region # NoRegion

\* C34: the crop of a selected bounding rectangle inside a W-by-H image lies
\* within the image, has positive width and height, contains the whole
\* rectangle and extends it by at most 2 * margin in each dimension, with
\* margin = min(15, w // 8, h // 8).
C34_CropInsideImage ==
    seg.pc = "cropped" =>
        LET b == seg.box
            r == seg.region
            margin == IF b.w \div 8 < 15 /\ b.w \div 8 <= b.h \div 8 THEN b.w \div 8
                      ELSE IF b.h \div 8 < 15 THEN b.h \div 8 ELSE 15
        IN  /\ r.x >= 0 /\ r.y >= 0
            /\ r.x + r.w <= seg.W /\ r.y + r.h <= seg.H
            /\ r.w > 0 /\ r.h > 0
            /\ r.x <= b.x /\ r.y <= b.y
            /\ r.x + r.w >= b.x + b.w /\ r.y + r.h >= b.y + b.h
            /\ r.w <= b.w + 2 * margin /\ r.h <= b.h + 2 * margin
            /\ b.x - r.x <= margin /\ b.y - r.y <= margin

\* a rectangle closer to the left and top borders than its margin and reaching
\* the right border: the crop is clamped on three sides
C34_Witness ==
    /\ seg.pc = "cropped"
    /\ seg.box.w \div 8 >= 15 /\ seg.box.h \div 8 >= 15
    /\ seg.box.x \in 1..14 /\ seg.box.y \in 1..14
    /\ seg.box.x + seg.box.w + 15 > seg.W
    /\ seg.region.x = 0 /\ seg.region.y = 0
    /\ seg.region.x + seg.region.w = seg.W

\* the images directory after the pipeline ran on an image of it
ImagesDir == {dec.image_path} \cup dec.artifacts

\* what holds for every image path: no artifact other than the image itself is
\* listed, and no name carrying the marker is
ArtifactsNotListed ==
    /\ \A a \in dec.artifacts \ {dec.image_path} : a \notin latest_images(ImagesDir)
    /\ \A f \in ImagesDir : has_debug_marker(f) => f \notin latest_images(ImagesDir)
    /\ glob_jpg(dec.image_path) =>
          \A a \in dec.artifacts : has_debug_marker(a) /\ a # dec.image_path

\* C26: get_latest_images never returns a debug artifact of the decoding
\* pipeline: every artifact the pipeline writes (one per direct attempt, and
\* the label crop) has a name containing "_debug", and every name containing
\* that marker is excluded from the listing.
C26_ArtifactsMarked ==
    /\ \A a \in dec.artifacts : has_debug_marker(a)
    /\ \A a \in dec.artifacts : a \notin latest_images(ImagesDir)
    /\ \A f \in ImagesDir : has_debug_marker(f) => f \notin latest_images(ImagesDir)

(***************************************************************************)
(* StorageManager                                                          *)
(***************************************************************************)
\* what the probe of _check_network_availability can meet (lines 85-116)
ProbeOutcomes == {"ok", "no_mount", "write_failed"}
\* storage_path.mkdir(parents=True, exist_ok=True): returns or raises
MkdirOutcomes == {"ok", "raise"}
\* save_func(path, ...): truthy, falsy, or raises
WriterOutcomes == {"true", "false", "raise"}

\* __init__ lines 42-46
sm0 == [network_available |-> FALSE, last_check_time |-> 0, consecutive_failures |-> 0]

\* _check_network_availability with the clock at t and the probe meeting p.
\* Result: the new state, the returned availability, whether a probe ran.
check_network_availability(s, t, p) ==
    IF t - s.last_check_time < check_interval
    THEN [st |-> s, ret |-> s.network_available, probed |-> FALSE]
    ELSE LET s1 == [s EXCEPT !.last_check_time = t] IN
         IF p = "ok"
         THEN [st |-> [s1 EXCEPT !.network_available = TRUE,
                                 !.consecutive_failures = 0],
               ret |-> TRUE, probed |-> TRUE]
         ELSE [st |-> [s1 EXCEPT !.network_available = FALSE],
               ret |-> FALSE, probed |-> TRUE]

\* mutant: the demotion test is made after the availability check
get_storage_path_probe_first(s, t, p) ==
    IF ~network_enabled
    THEN [st |-> s, target |-> "local", probed |-> FALSE]
    ELSE LET c == check_network_availability(s, t, p) IN
         IF c.ret
         THEN [st |-> c.st, target |-> "network", probed |-> c.probed]
         ELSE [st |-> c.st, target |-> "local", probed |-> c.probed]

\* get_storage_path: (fallback_dir, False) is "local", (mount_point, True) is "network"
get_storage_path(s, t, p) ==
    IF ~network_enabled
    THEN [st |-> s, target |-> "local", probed |-> FALSE]
    ELSE IF s.consecutive_failures >= max_failures
    THEN [st |-> s, target |-> "local", probed |-> FALSE]
    ELSE LET c == check_network_availability(s, t, p) IN
         IF c.ret
         THEN [st |-> c.st, target |-> "network", probed |-> c.probed]
         ELSE [st |-> c.st, target |-> "local", probed |-> c.probed]

\* mutant: the success branch forgets to reset the counter
save_success_state_keep(s) == s

\* save_file line 176: the counter is reset when the first write succeeds
save_success_state(s) == [s EXCEPT !.consecutive_failures = 0]

\* mutant: a failed network write is not counted
save_network_failure_state_uncounted(s) == s

\* mutant: a failed network write is counted twice
save_network_failure_state_twice(s) == [s EXCEPT !.consecutive_failures = @ + 2]

\* save_file line 187: a failure on the network target is counted
save_network_failure_state(s) == [s EXCEPT !.consecutive_failures = @ + 1]

\* mutant: the failure is counted whatever the target was
save_local_failure_state_counted(s) == [s EXCEPT !.consecutive_failures = @ + 1]

\* save_file lines 206-208: a failure on the local target changes nothing
save_local_failure_state(s) == s

\* save_file.  mk1/w1: mkdir and writer on the resolved target; mk2/w2: mkdir and
\* writer of the fallback.  calls: the targets the writer was invoked on, in order.
\* path "" with success FALSE is the failure report ("", False).
save_file(s, t, p, mk1, w1, mk2, w2) ==
    LET r == get_storage_path(s, t, p)
        calls1 == IF mk1 = "ok" THEN <<r.target>> ELSE <<>>
        base == [resolved |-> r.target, after_resolve |-> r.st, probed |-> r.probed,
                 fallback |-> (r.target = "network" /\ ~(mk1 = "ok" /\ w1 = "true"))]
    IN  IF mk1 = "ok" /\ w1 = "true"
        THEN base @@ [st |-> save_success_state(r.st),
                      path |-> r.target, success |-> TRUE, calls |-> calls1]
        ELSE IF r.target = "network"
        THEN LET s2 == save_network_failure_state(r.st) IN
             IF mk2 = "ok" /\ w2 = "true"
             THEN base @@ [st |-> s2, path |-> "local", success |-> TRUE,
                           calls |-> calls1 \o <<"local">>]
             ELSE base @@ [st |-> s2, path |-> "", success |-> FALSE,
                           calls |-> calls1 \o (IF mk2 = "ok" THEN <<"local">> ELSE <<>>)]
        ELSE base @@ [st |-> save_local_failure_state(r.st),
                      path |-> "", success |-> FALSE, calls |-> calls1]

\* mutant: the availability is asked even when the network is disabled
query_availability_unguarded(s, t, p) == check_network_availability(s, t, p)

\* the availability query shared by get_file_path, list_files and get_storage_status
query_availability(s, t, p) ==
    IF network_enabled
    THEN check_network_availability(s, t, p)
    ELSE [st |-> s, ret |-> FALSE, probed |-> FALSE]

\* get_storage_status: the fields of the returned dict that depend on the state
get_storage_status(s, t, p) ==
    LET c == query_availability(s, t, p) IN
    [st |-> c.st, probed |-> c.probed,
     network_available |-> c.ret,
     consecutive_failures |-> c.st.consecutive_failures,
     using_fallback |-> (c.st.consecutive_failures >= max_failures \/ ~c.ret),
     current_storage |-> IF c.ret THEN "network" ELSE "local"]

\* mutant: the reset leaves the time of the last check in place
reset_failure_counter_counter_only(s) ==
    [s EXCEPT !.consecutive_failures = 0]

\* reset_failure_counter
reset_failure_counter(s) ==
    [s EXCEPT !.consecutive_failures = 0, !.last_check_time = 0]

\* ---- list_files (lines 234-285) ----
\* a file is [name, mtime, root]; a root's glob result is a sequence of files
\* with distinct names, in the order the file system yields them
FileNames == {"a.jpg", "b.jpg"}
Mtimes == {1, 2}
NoLimit == -1     \* limit=None, the default
Limits == {NoLimit, 0, 1}
Files(root) == [name : FileNames, mtime : Mtimes, root : {root}]
\* the network root holds at most one file, the local root at most two
NetworkGlobs == {<<>>} \cup {<<f>> : f \in Files("network")}
LocalGlobs ==
    {<<>>} \cup {<<f>> : f \in Files("local")}
           \cup {q \in Files("local") \X Files("local") : q[1].name # q[2].name}

\* lines 264-272: one entry per name, in order of first appearance; a later
\* file of the same name replaces the entry only when strictly newer
RECURSIVE unique_files(_, _)
unique_files(all_files, acc) ==
    IF all_files = <<>> THEN acc
    ELSE LET f == Head(all_files)
             hit == {i \in 1..Len(acc) : acc[i].name = f.name}
         IN unique_files(Tail(all_files),
               IF hit = {} THEN Append(acc, f)
               ELSE LET i == CHOOSE j \in hit : TRUE IN
                    IF f.mtime > acc[i].mtime THEN [acc EXCEPT ![i] = f] ELSE acc)

\* lines 274-279: sorted(key=st_mtime, reverse=True), which is stable
RECURSIVE sorted_by_mtime(_)
sorted_by_mtime(fs) ==
    IF fs = <<>> THEN <<>>
    ELSE LET m == CHOOSE i \in 1..Len(fs) :
                     /\ \A j \in 1..Len(fs) : fs[j].mtime <= fs[i].mtime
                     /\ \A j \in 1..(i - 1) : fs[j].mtime < fs[i].mtime
         IN <<fs[m]>> \o sorted_by_mtime(SubSeq(fs, 1, m - 1) \o SubSeq(fs, m + 1, Len(fs)))

\* lines 281-283: "if limit:" is false for None and for 0
limit_applies(limit) == limit # NoLimit /\ limit # 0

\* list_files(pattern, limit): avail is what the availability query answered
list_files(avail, net, loc, limit) ==
    LET all_files == (IF avail THEN net ELSE <<>>) \o loc
        sorted_files == sorted_by_mtime(unique_files(all_files, <<>>))
    IN IF limit_applies(limit)
       THEN SubSeq(sorted_files, 1, IF limit < Len(sorted_files) THEN limit ELSE Len(sorted_files))
       ELSE sorted_files

NoListing == [avail |-> FALSE, net |-> <<>>, loc |-> <<>>, limit |-> NoLimit, result |-> <<>>]

NoCall == [op |-> "none", pre |-> sm0, resolved |-> "none", after_resolve |-> sm0,
           probed |-> FALSE, path |-> "none", success |-> FALSE, calls |-> <<>>,
           w1 |-> "none", mk2 |-> "none", w2 |-> "none", ls |-> NoListing]

\* w1, mk2, w2: what the writer and the fallback mkdir did where they were invoked
Call(op, pre, resolved, after, probed, path, success, calls, w1) ==
    [op |-> op, pre |-> pre, resolved |-> resolved, after_resolve |-> after,
     probed |-> probed, path |-> path, success |-> success, calls |-> calls,
     w1 |-> w1, mk2 |-> "none", w2 |-> "none", ls |-> NoListing]

\* history: a probe at time t; forced when the previous probe is younger than
\* the check interval
NeverProbed == [last |-> -1, reset |-> FALSE, forced |-> FALSE]
ProbeLog(probed) ==
    IF probed
    THEN [last |-> now, reset |-> FALSE,
          forced |-> (probes.last # -1 /\ now - probes.last < check_interval)]
    ELSE probes

\* StorageManager() : __init__ then _initialize_storage, which probes when enabled
StoInit ==
    /\ network_enabled \in BOOLEAN
    /\ now = check_interval
    /\ \E p \in ProbeOutcomes :
          sm = IF network_enabled
               THEN check_network_availability(sm0, now, p).st
               ELSE sm0
    /\ last_call = NoCall
    /\ probes = IF network_enabled
                THEN [last |-> now, reset |-> FALSE, forced |-> FALSE]
                ELSE NeverProbed

\* time passes between two calls
Tick ==
    /\ \E d \in {check_interval \div 2, check_interval} :
          /\ now + d <= MaxTime
          /\ now' = now + d
    /\ UNCHANGED <<network_enabled, sm, last_call, probes>>
    /\ UNCHANGED <<camVars, wsVars, extVars>>

GetStoragePath ==
    /\ \E p \in ProbeOutcomes :
          LET r == get_storage_path(sm, now, p) IN
          /\ sm' = r.st
          /\ last_call' = Call("get_storage_path", sm, r.target, r.st, r.probed,
                               r.target, TRUE, <<>>, "none")
          /\ probes' = ProbeLog(r.probed)
    /\ UNCHANGED <<network_enabled, now>>
    /\ UNCHANGED <<camVars, wsVars, extVars>>

SaveFile ==
    /\ \E p \in ProbeOutcomes, mk1 \in MkdirOutcomes, w1 \in WriterOutcomes :
       \* the fallback's outcomes are inputs only when the fallback runs
       \E mk2 \in IF save_file(sm, now, p, mk1, w1, "ok", "true").fallback
                   THEN MkdirOutcomes ELSE {"ok"},
          w2 \in IF save_file(sm, now, p, mk1, w1, "ok", "true").fallback
                  THEN WriterOutcomes ELSE {"true"} :
          LET r == save_file(sm, now, p, mk1, w1, mk2, w2) IN
          /\ sm' = r.st
          /\ last_call' = [Call("save_file", sm, r.resolved, r.after_resolve, r.probed,
                                r.path, r.success, r.calls,
                                IF mk1 = "ok" THEN w1 ELSE "none")
                               EXCEPT !.mk2 = IF r.fallback THEN mk2 ELSE "none",
                                      !.w2 = IF r.fallback /\ mk2 = "ok" THEN w2 ELSE "none"]
          /\ probes' = ProbeLog(r.probed)
    /\ UNCHANGED <<network_enabled, now>>
    /\ UNCHANGED <<camVars, wsVars, extVars>>

\* get_file_path touches the manager's state only through the availability
\* query (line 221)
GetFilePath ==
    /\ \E p \in ProbeOutcomes :
          LET c == query_availability(sm, now, p) IN
          /\ sm' = c.st
          /\ last_call' = Call("get_file_path", sm, "none", c.st, c.probed,
                               "none", c.ret, <<>>, "none")
          /\ probes' = ProbeLog(c.probed)
    /\ UNCHANGED <<network_enabled, now>>
    /\ UNCHANGED <<camVars, wsVars, extVars>>

\* list_files: the availability query (line 248), then the listing
ListFilesOf(net, loc, limit) ==
    /\ \E p \in ProbeOutcomes :
          LET c == query_availability(sm, now, p) IN
          /\ sm' = c.st
          /\ last_call' = [Call("list_files", sm, "none", c.st, c.probed,
                                "none", c.ret, <<>>, "none")
                               EXCEPT !.ls = [avail |-> c.ret, net |-> net, loc |-> loc,
                                              limit |-> limit,
                                              result |-> list_files(c.ret, net, loc, limit)]]
          /\ probes' = ProbeLog(c.probed)
    /\ UNCHANGED <<network_enabled, now>>
    /\ UNCHANGED <<camVars, wsVars, extVars>>

ListFiles ==
    \E net \in NetworkGlobs, loc \in LocalGlobs, limit \in Limits :
       ListFilesOf(net, loc, limit)

\* list_files over two empty roots
ListEmpty == ListFilesOf(<<>>, <<>>, NoLimit)

GetStorageStatus ==
    /\ \E p \in ProbeOutcomes :
          LET r == get_storage_status(sm, now, p) IN
          /\ sm' = r.st
          /\ last_call' = Call("get_storage_status", sm, r.current_storage, r.st,
                               r.probed, r.current_storage, r.using_fallback, <<>>, "none")
          /\ probes' = ProbeLog(r.probed)
    /\ UNCHANGED <<network_enabled, now>>
    /\ UNCHANGED <<camVars, wsVars, extVars>>

ResetFailureCounter ==
    /\ sm' = reset_failure_counter(sm)
    /\ last_call' = Call("reset_failure_counter", sm, "none", sm', FALSE,
                         "none", TRUE, <<>>, "none")
    /\ probes' = [probes EXCEPT !.reset = TRUE]
    /\ UNCHANGED <<network_enabled, now>>
    /\ UNCHANGED <<camVars, wsVars, extVars>>


(***************************************************************************)
(* Claims about the StorageManager (checked under SpecSto)                 *)
(***************************************************************************)
Saved == last_call.op = "save_file"
WriterFailed(w) == w \in {"false", "raise"}

\* the writer was invoked on a path of the network root
WroteOnNetwork == \E i \in DOMAIN last_call.calls : last_call.calls[i] = "network"

\* C35 (as claimed): 0 <= consecutive-failure counter <= maximum in every
\* state; each save_file call changes the counter by +1, by a reset to 0, or
\* not at all; the writer is invoked on a network path only in states where
\* the counter is below the maximum.
C35_CounterStep ==
    /\ 0 <= sm.consecutive_failures /\ sm.consecutive_failures <= max_failures
    /\ Saved =>
          sm.consecutive_failures \in
             {last_call.pre.consecutive_failures + 1, 0,
              last_call.pre.consecutive_failures}
    /\ (Saved /\ WroteOnNetwork) =>
          /\ last_call.pre.consecutive_failures < max_failures
          /\ last_call.after_resolve.consecutive_failures < max_failures

\* C35 (amended): 0 <= counter <= maximum in every state; the target
\* resolution of a save_file call leaves the counter or resets it to 0, and
\* the write that follows adds 1, resets to 0 or leaves it, so that a call may
\* also take the counter from c to 1; the writer is invoked on a network path
\* only in states where the counter is below the maximum.
C35_CounterStepAfterResolve ==
    /\ 0 <= sm.consecutive_failures /\ sm.consecutive_failures <= max_failures
    /\ Saved =>
          /\ last_call.after_resolve.consecutive_failures \in
                {0, last_call.pre.consecutive_failures}
          /\ sm.consecutive_failures \in
                {last_call.after_resolve.consecutive_failures + 1, 0,
                 last_call.after_resolve.consecutive_failures}
          /\ sm.consecutive_failures \in
                {last_call.pre.consecutive_failures + 1, 0, 1,
                 last_call.pre.consecutive_failures}
    /\ (Saved /\ WroteOnNetwork) =>
          /\ last_call.pre.consecutive_failures < max_failures
          /\ last_call.after_resolve.consecutive_failures < max_failures

\* a save_file call one failure below the maximum writes on the network, fails
\* and takes the counter to the maximum
C35_Witness ==
    /\ Saved /\ WroteOnNetwork
    /\ last_call.pre.consecutive_failures = max_failures - 1
    /\ sm.consecutive_failures = max_failures

\* C38 (as claimed): in every state, get_storage_status reports a
\* current_storage equal to the root get_storage_path returns in that same
\* state, and using_fallback is true exactly when that root is the local one.
C38_StatusMatchesPath ==
    \A p \in ProbeOutcomes :
       LET status == get_storage_status(sm, now, p)
           r == get_storage_path(sm, now, p)
       IN  /\ status.current_storage = r.target
           /\ status.using_fallback <=> r.target = "local"

\* C5: whenever the consecutive-failure counter is at or above the maximum,
\* get_storage_path returns the local target, without probing, whatever the
\* cached availability is and whatever the probe would answer.
C5_DemotedResolvesLocal ==
    /\ sm.consecutive_failures >= max_failures =>
          \A p \in ProbeOutcomes :
             /\ get_storage_path(sm, now, p).target = "local"
             /\ ~get_storage_path(sm, now, p).probed
    /\ (last_call.op = "get_storage_path"
          /\ last_call.pre.consecutive_failures >= max_failures)
       => last_call.resolved = "local" /\ ~last_call.probed /\ sm = last_call.pre

\* C5 witness: get_storage_path was called with the counter at the maximum while
\* the cached availability said "available", and answered local.
C5_Witness ==
    /\ last_call.op = "get_storage_path"
    /\ last_call.pre.consecutive_failures >= max_failures
    /\ last_call.pre.network_available
    /\ last_call.resolved = "local"

\* C6 (as claimed): once the counter has reached the maximum, every step that is
\* not reset_failure_counter leaves it at the maximum and get_storage_path local.
C6_DemotionPersists ==
    [][ResetFailureCounter
       \/ (sm.consecutive_failures >= max_failures
            => /\ sm'.consecutive_failures >= max_failures
               /\ \A p \in ProbeOutcomes :
                     get_storage_path(sm', now', p).target = "local")]_vars

\* C7 (as claimed): every save_file that ends with a successful write to the
\* local target, resolved or fallback, leaves the counter at 0.
C7_LocalWriteResets ==
    (Saved /\ last_call.success /\ last_call.path = "local")
       => sm.consecutive_failures = 0

\* C7 (amended): a save_file whose resolved target is local and whose write
\* succeeds leaves the counter at 0; a successful network-to-local fallback
\* leaves it at the value after resolution plus one.
C7_ResolvedLocalWriteResets ==
    /\ (Saved /\ last_call.success /\ last_call.resolved = "local")
          => sm.consecutive_failures = 0
    /\ (Saved /\ last_call.success /\ last_call.resolved = "network"
          /\ last_call.path = "local")
          => sm.consecutive_failures = last_call.after_resolve.consecutive_failures + 1

\* C7 witness: a successful write on the resolved local target reset a non-zero counter
C7_Witness ==
    /\ Saved /\ last_call.success /\ last_call.resolved = "local"
    /\ last_call.pre.consecutive_failures > 0
    /\ sm.consecutive_failures = 0

\* C8 (as claimed): network target resolved and the writer failed: counter + 1,
\* the writer invoked exactly once more, on the local target; ("", False) only
\* if that second write failed; never more than two invocations.
C8_OneFallbackWrite ==
    (Saved /\ last_call.resolved = "network" /\ WriterFailed(last_call.w1))
       => /\ sm.consecutive_failures = last_call.after_resolve.consecutive_failures + 1
          /\ last_call.calls = <<"network", "local">>
          /\ (~last_call.success => WriterFailed(last_call.w2))
          /\ (~last_call.success <=> last_call.path = "")

\* C8 (amended): network target resolved and the writer failed: counter + 1; the
\* writer is invoked at most once more, on the local target, and exactly once
\* more when the local directory could be ensured; ("", False) is reported
\* exactly when the fallback mkdir raised or the second write failed.
C8_AtMostOneFallbackWrite ==
    (Saved /\ last_call.resolved = "network" /\ WriterFailed(last_call.w1))
       => /\ sm.consecutive_failures = last_call.after_resolve.consecutive_failures + 1
          /\ last_call.calls \in {<<"network">>, <<"network", "local">>}
          /\ (last_call.mk2 = "ok" <=> last_call.calls = <<"network", "local">>)
          /\ (~last_call.success
                <=> (last_call.mk2 = "raise" \/ WriterFailed(last_call.w2)))
          /\ (~last_call.success <=> last_call.path = "")
          /\ (last_call.success => last_call.path = "local")

\* C8 witness: the network write failed and the single fallback write succeeded
C8_Witness ==
    /\ Saved /\ last_call.resolved = "network" /\ WriterFailed(last_call.w1)
    /\ last_call.calls = <<"network", "local">>
    /\ last_call.success /\ last_call.path = "local"
    /\ sm.consecutive_failures = 2

\* C9: local target resolved and the writer failed: ("", False), one writer
\* invocation, on local only; the failure handling leaves the counter (equal to
\* its value before the call) and the cached availability (as resolution left
\* it) unchanged.
C9_LocalFailureDirect ==
    (Saved /\ last_call.resolved = "local" /\ WriterFailed(last_call.w1))
       => /\ last_call.path = "" /\ ~last_call.success
          /\ last_call.calls = <<"local">>
          /\ last_call.mk2 = "none" /\ last_call.w2 = "none"
          /\ sm = last_call.after_resolve
          /\ sm.consecutive_failures = last_call.pre.consecutive_failures

\* C9 witness: a failed write on the resolved local target with a non-zero counter
C9_Witness ==
    /\ Saved /\ last_call.resolved = "local" /\ last_call.w1 = "false"
    /\ ~last_call.success
    /\ last_call.pre.consecutive_failures = 2

(***************************************************************************)
(* Claims about list_files (checked under SpecList)                        *)
(***************************************************************************)
Listed == last_call.op = "list_files"
Range(q) == {q[i] : i \in 1..Len(q)}
\* the files of the roots the call listed
ListedRoots ==
    Range(last_call.ls.loc)
       \cup (IF last_call.ls.avail THEN Range(last_call.ls.net) ELSE {})

\* what holds of every listing: one entry per name, each the newest file of
\* its name, newest first, and every name present when nothing is cut off
ListingWellFormed ==
    LET res == last_call.ls.result IN
    Listed =>
       /\ \A i, j \in 1..Len(res) : i < j =>
             /\ res[i].name # res[j].name
             /\ res[i].mtime >= res[j].mtime
       /\ \A i \in 1..Len(res) :
             /\ res[i] \in ListedRoots
             /\ \A f \in ListedRoots : f.name = res[i].name => f.mtime <= res[i].mtime
       /\ ~limit_applies(last_call.ls.limit) =>
             {f.name : f \in ListedRoots} = {f.name : f \in Range(res)}
       /\ limit_applies(last_call.ls.limit) =>
             /\ Len(res) <= last_call.ls.limit
             /\ Len(res) = last_call.ls.limit
                   \/ {f.name : f \in ListedRoots} = {f.name : f \in Range(res)}
             /\ \A f \in ListedRoots : \A i \in 1..Len(res) :
                   f.mtime > res[i].mtime => \E k \in 1..Len(res) : res[k].name = f.name

\* C23: list_files returns the union of the matches of both roots with one
\* entry per file name (the later modification time wins), ordered by
\* modification time descending, and at most limit entries for every limit
\* given to it, 0 included.
C23_ListingBounded ==
    /\ ListingWellFormed
    /\ (Listed /\ last_call.ls.limit # NoLimit) =>
          Len(last_call.ls.result) <= last_call.ls.limit

\* a listing asked with limit 0 that returns a file
C23_LimitZeroReturnsAll ==
    /\ Listed /\ last_call.ls.limit = 0
    /\ Len(last_call.ls.result) > 0

(***************************************************************************)
(* Claims about a disabled network and about the probe cache (SpecSto)     *)
(***************************************************************************)
\* C24: when network storage is disabled, get_storage_path returns the local
\* target in every state, save_file never invokes the writer on a network
\* path, and no operation probes or changes the cached availability.
C24_DisabledStaysLocal ==
    ~network_enabled =>
       /\ \A p \in ProbeOutcomes :
             /\ get_storage_path(sm, now, p).target = "local"
             /\ ~get_storage_path(sm, now, p).probed
             /\ ~query_availability(sm, now, p).probed
             /\ ~query_availability(sm, now, p).ret
             /\ \A mk \in MkdirOutcomes, w \in WriterOutcomes :
                   "network" \notin Range(save_file(sm, now, p, mk, w, mk, w).calls)
       /\ sm.network_available = FALSE
       /\ sm.last_check_time = 0
       /\ probes.last = -1
       /\ ~last_call.probed
       /\ last_call.resolved # "network"
       /\ "network" \notin Range(last_call.calls)

C24_Witness ==
    /\ ~network_enabled
    /\ Saved /\ last_call.calls = <<"local">>
    /\ now >= 2 * check_interval

\* the operations that ask for the availability
QueryOps == {"get_storage_path", "get_file_path", "list_files", "get_storage_status"}

\* C25: a probe runs only when at least the check interval (60 s) has passed
\* since the previous probe, or reset_failure_counter was called since it;
\* otherwise an availability query answers from the cache and changes no
\* state. After reset_failure_counter the counter is 0 and the next
\* availability query probes.
C25_ProbeOnlyWhenStale ==
    /\ [][ /\ (probes'.last = now /\ ~probes'.reset /\ probes' # probes) =>
                 \/ probes.last = -1
                 \/ probes.reset
                 \/ now - probes.last >= check_interval
           /\ (last_call'.op \in QueryOps /\ now' = now /\ ~last_call'.probed) =>
                 /\ sm' = sm
                 /\ probes' = probes
                 /\ last_call'.op = "get_file_path" =>
                       last_call'.success = (network_enabled /\ sm.network_available)
                 /\ last_call'.op = "list_files" =>
                       last_call'.ls.avail = (network_enabled /\ sm.network_available)
                 /\ last_call'.op = "get_storage_status" =>
                       (last_call'.resolved = "network")
                          = (network_enabled /\ sm.network_available)
                 /\ last_call'.op = "get_storage_path" =>
                       (last_call'.resolved = "network")
                          = (/\ network_enabled /\ sm.network_available
                             /\ sm.consecutive_failures < max_failures)
         ]_vars
    /\ [](last_call.op = "reset_failure_counter" =>
             /\ sm.consecutive_failures = 0
             /\ \A p \in ProbeOutcomes : check_network_availability(sm, now, p).probed)

\* a probe younger than the check interval, run because of a reset
C25_Witness ==
    /\ probes.forced
    /\ last_call.op \in QueryOps /\ last_call.probed
    /\ last_call.pre.last_check_time = 0

(***************************************************************************)
(* Specifications                                                          *)
(***************************************************************************)
\* the storage manager before it plays a part
StoIdle ==
    /\ network_enabled = FALSE
    /\ sm = sm0
    /\ now = check_interval
    /\ probes = NeverProbed
    /\ last_call = NoCall

\* no decode call, no frame rendered and no zoom command yet
ExtRest ==
    /\ dec = dec0
    /\ rendered = rendered0
    /\ zoom_cmd = [op |-> "none", x |-> 5, y |-> 5, prev |-> "none"]
    /\ shutdown = shutdown0
    /\ af = af0

HistIdle == seg = seg0 /\ focus_run = "none" /\ still = still0 /\ names = <<>>

ExtInit == ExtRest /\ HistIdle

InitSto == CamInit /\ WsInit /\ ExtInit /\ StoInit
InitCam == CamInit /\ WsInit /\ ExtInit /\ StoIdle

NextSto ==
    \/ Tick
    \/ GetStoragePath
    \/ SaveFile
    \/ GetFilePath
    \/ ListEmpty
    \/ GetStorageStatus
    \/ ResetFailureCounter

SpecSto == InitSto /\ [][NextSto]_vars

\* list_files over every content of the two roots, before and after the cached
\* availability expires
NextList ==
    \/ Tick /\ now = check_interval /\ now' = now + check_interval
    \/ ListFiles

SpecList == InitSto /\ [][NextList]_vars

\* the acquisition threads, the frame buffer and the pause / restore cycles of
\* the standard profile, the only profile that stops and restarts the thread
NextAcq ==
    \/ Initialize
    \/ \E t \in Threads : AcqLoopTest(t)
    \/ \E t \in Threads : AcqReadyTest(t)
    \/ \E t \in Threads : AcqCapture(t)
    \/ \E t \in Threads : AcqPush(t)
    \/ \E t \in Threads : AcqEvict(t)
    \/ \E r \in clients : CapturePhotoEnhanced(r)
    \/ \E r \in clients : PauseAcquisition(r)
    \/ \E r \in clients : JoinAcquisition(r)
    \/ \E r \in clients : DeviceStop(r)
    \/ \E r \in clients : DeviceConfigure(r)
    \/ \E r \in clients : DeviceStart(r)
    \/ \E r \in clients : TakeShot(r)
    \/ \E r \in clients : WriteImage(r)
    \/ \E r \in clients : RestoreStop(r)
    \/ \E r \in clients : RestoreConfigure(r)
    \/ \E r \in clients : RestoreStart(r)
    \/ \E r \in clients : CaptureFinish(r)
    \/ \E r \in clients : EmergencyStop(r)
    \/ \E r \in clients : EmergencyConfigure(r)
    \/ \E r \in clients : EmergencyStart(r)
    \/ \E r \in clients : EmergencyRestart(r)
    \/ \E r \in clients : CaptureRaise(r)

SpecAcq == InitCam /\ [][NextAcq]_vars

\* the capture orchestrator in its three profiles, as the request-handling
\* context runs it
NextCap ==
    \/ Initialize
    \/ UpdateSettings
    \/ \E r \in clients : CapturePhotoEnhanced(r)
    \/ \E r \in clients : PauseAcquisition(r)
    \/ \E r \in clients : JoinAcquisition(r)
    \/ \E r \in clients : DeviceStop(r)
    \/ \E r \in clients : DeviceConfigure(r)
    \/ \E r \in clients : DeviceStart(r)
    \/ \E r \in clients : TakeShot(r)
    \/ \E r \in clients : WriteImage(r)
    \/ \E r \in clients : RestoreStop(r)
    \/ \E r \in clients : RestoreConfigure(r)
    \/ \E r \in clients : RestoreStart(r)
    \/ \E r \in clients : CaptureFinish(r)
    \/ \E r \in clients : EmergencyStop(r)
    \/ \E r \in clients : EmergencyConfigure(r)
    \/ \E r \in clients : EmergencyStart(r)
    \/ \E r \in clients : EmergencyRestart(r)
    \/ \E r \in clients : CaptureRaise(r)

SpecCap == InitCam /\ [][NextCap]_vars

\* capture_photo_enhanced is called a second time while a call is in progress
SecondRequest ==
    /\ clients = {1}
    /\ req[1].pc \notin {"idle", "done"}
    /\ ~InSyncBlock(req[1])
    /\ clients' = ReqIds
    /\ UNCHANGED <<app_quality_mode, quality_config, picam, is_streaming, stop_capture,
                   capture_thread, thread, frame_buffer, buffer_lock, clock, pushed,
                   req, faults>>
    /\ UNCHANGED <<stoVars, wsVars, extVars>>

\* one capture request at a time in any profile, the settings being posted
\* between captures, and two requests of the standard profile interleaved on
\* the event loop
NextInter ==
    \/ Initialize
    \/ UpdateSettings /\ clients = {1} /\ req[1].pc \in {"idle", "done"}
    \/ SecondRequest /\ app_quality_mode = "standard"
    \/ \E r \in clients : CapturePhotoEnhanced(r)
    \/ \E r \in clients : PauseAcquisition(r)
    \/ \E r \in clients : JoinAcquisition(r)
    \/ \E r \in clients : DeviceStop(r)
    \/ \E r \in clients : DeviceConfigure(r)
    \/ \E r \in clients : DeviceStart(r)
    \/ \E r \in clients : TakeShot(r)
    \/ \E r \in clients : WriteImage(r)
    \/ \E r \in clients : RestoreStop(r)
    \/ \E r \in clients : RestoreConfigure(r)
    \/ \E r \in clients : RestoreStart(r)
    \/ \E r \in clients : CaptureFinish(r)
    \/ \E r \in clients : EmergencyStop(r)
    \/ \E r \in clients : EmergencyConfigure(r)
    \/ \E r \in clients : EmergencyStart(r)
    \/ \E r \in clients : EmergencyRestart(r)
    \/ \E r \in clients : CaptureRaise(r)

SpecInter == InitCam /\ [][NextInter]_vars

\* one websocket client at a time and the commands it sends
NextWs ==
    \/ Initialize
    \/ WsAccept
    \/ PeerDrop
    \/ WsDisconnect
    \/ WsZoomTo
    \/ WsResetZoom
    \/ WsLighting
    \/ WsQualityMode
    \/ WsUnknownCommand
    \/ WsReply
    \/ WsCapture
    \/ CaptureSendStatus
    \/ CaptureCallCapturePhoto
    \/ CaptureSendError
    \/ WsFocus
    \/ FocusSendStatus
    \/ FocusAuto
    \/ FocusSendDone
    \/ FocusSendError

SpecWs == InitCam /\ [][NextWs]_vars

\* the video stream: the acquisition thread, a client sending zoom commands
\* and the renderer
NextView ==
    \/ Initialize
    \/ \E t \in Threads : AcqLoopTest(t)
    \/ \E t \in Threads : AcqReadyTest(t)
    \/ \E t \in Threads : AcqCapture(t)
    \/ \E t \in Threads : AcqPush(t)
    \/ \E t \in Threads : AcqEvict(t)
    \/ WsAccept
    \/ PeerDrop
    \/ WsDisconnect
    \/ WsZoomTo
    \/ WsResetZoom
    \/ WsReply
    \/ RenderFrame

SpecView == InitCam /\ [][NextView]_vars

\* stop() called with the acquisition thread at any position
NextStop ==
    \/ Initialize
    \/ \E t \in Threads : AcqLoopTest(t)
    \/ \E t \in Threads : AcqReadyTest(t)
    \/ \E t \in Threads : AcqCapture(t)
    \/ \E t \in Threads : AcqPush(t)
    \/ \E t \in Threads : AcqEvict(t)
    \/ ManagerStop
    \/ StopJoin
    \/ StopTeardown

SpecStop == InitCam /\ [][NextStop]_vars

\* the initial autofocus of initialize() and focus_auto calls after it
NextFocus ==
    \/ Initialize
    \/ AfBegin("initial")
    \/ AfBegin("manual")
    \/ AfLoopTest
    \/ AfPoll
    \/ AfLatch

SpecFocus == InitCam /\ [][NextFocus]_vars

\* decode_datamatrix called on one image after another
NextLens ==
    \/ InitializeLens
    \/ FocusAutoLens
    \/ SetQualityModeLens
    \/ CaptureLens

\* the lens position from the autofocus routines to the still configuration
SpecLens == InitCam /\ [][NextLens]_vars

NextName == CaptureRequest

\* the destination paths of successive capture requests
SpecName == InitCam /\ [][NextName]_vars

NextLabel == ExtractWhiteLabel

InitLabel == CamInit /\ WsInit /\ StoIdle /\ ExtRest /\ focus_run = "none" /\ still = still0 /\ names = <<>> /\ seg \in LabelInputs

\* extract_white_label_enhanced on the contour lists drawn
SpecLabel == InitLabel /\ [][NextLabel]_vars

NextCrop == ExtractCrop

InitCrop ==
    /\ CamInit /\ WsInit /\ StoIdle /\ ExtRest /\ focus_run = "none" /\ still = still0 /\ names = <<>>
    /\ seg \in { s \in CropInputs : BoxInside(s.box, s.H, s.W) }

\* the crop of lines 842-850 on the bounding rectangles drawn
SpecCrop == InitCrop /\ [][NextCrop]_vars

NextDec ==
    \/ DecodeBegin
    \/ DecodeRead
    \/ EnhancedRead
    \/ EnhancedPreprocess
    \/ EnhancedThreshold
    \/ EnhancedAttempt
    \/ FallbackLabel
    \/ FallbackAttempt

SpecDec == InitCam /\ [][NextDec]_vars

====
